---- MODULE Spec2Model ----
(***************************************************************************)
(* A model of django-github-app's permission resolver                      *)
(* (django_github_app/permissions.py), mention router                      *)
(* (django_github_app/routing.py, django_github_app/mentions.py) and       *)
(* webhook views (django_github_app/views.py).                             *)
(*                                                                         *)
(* Text that the code inspects character by character (permission         *)
(* strings, comment bodies, patterns) is a sequence of one-character      *)
(* strings; names that are only compared (owner, repo, login, event type) *)
(* are plain strings.                                                      *)
(***************************************************************************)
EXTENDS Integers, Sequences, FiniteSets, TLC

VARIABLES cache, tasks, last, firstRes, lastRes, recency, lastCheck,
          routes, wrappers, bound, dispatched, decorators,
          input, output,
          objects, registry, views, reads

vars == <<cache, tasks, last, firstRes, lastRes, recency, lastCheck,
          routes, wrappers, bound, dispatched, decorators, input, output,
          objects, registry, views, reads>>

\* the state of the permission resolver, the state of the router, and the
\* call of a function of mentions.py on its own: its arguments and what it
\* returned
pvars == <<cache, tasks, last, firstRes, lastRes, recency, lastCheck>>
rvars == <<routes, wrappers, bound, dispatched, decorators>>
mvars == <<input, output>>
\* the router objects made so far (an object is named by its place in
\* objects), GitHubRouter._routers, the number of webhook views made, and
\* what each read of view.router returned
vvars == <<objects, registry, views, reads>>

(***************************************************************************)
(* Characters and the str methods the code uses.                           *)
(***************************************************************************)
UpperChars == <<"A","B","C","D","E","F","G","H","I","J","K","L","M",
                "N","O","P","Q","R","S","T","U","V","W","X","Y","Z">>

LowerChars == <<"a","b","c","d","e","f","g","h","i","j","k","l","m",
                "n","o","p","q","r","s","t","u","v","w","x","y","z">>

Whitespace == {" ", "\t", "\n", "\r"}

\* str.lower() on one character
lower_char(c) ==
  IF \E i \in 1..Len(UpperChars) : UpperChars[i] = c
  THEN LowerChars[CHOOSE i \in 1..Len(UpperChars) : UpperChars[i] = c]
  ELSE c

\* str.lower()
str_lower(s) == [i \in 1..Len(s) |-> lower_char(s[i])]

\* str.strip(): drop leading and trailing whitespace
str_strip(s) ==
  LET idx == {i \in 1..Len(s) : s[i] \notin Whitespace}
  IN IF idx = {} THEN <<>>
     ELSE LET lo == CHOOSE i \in idx : \A j \in idx : i <= j
              hi == CHOOSE i \in idx : \A j \in idx : j <= i
          IN SubSeq(s, lo, hi)

(***************************************************************************)
(* class Permission(int, Enum)                                             *)
(***************************************************************************)
Permission ==
  [NONE |-> 0, READ |-> 1, TRIAGE |-> 2, WRITE |-> 3, MAINTAIN |-> 4, ADMIN |-> 5]

PermissionValues == 0..5

\* the outcome of a resolution that raised instead of returning
ValueError == 100
KeyError == 101

\* no value (Python None / nothing recorded)
Null == -1

\* Permission.from_string's permission_map
permission_map ==
  { << <<"n","o","n","e">>, Permission.NONE >>,
    << <<"r","e","a","d">>, Permission.READ >>,
    << <<"t","r","i","a","g","e">>, Permission.TRIAGE >>,
    << <<"w","r","i","t","e">>, Permission.WRITE >>,
    << <<"m","a","i","n","t","a","i","n">>, Permission.MAINTAIN >>,
    << <<"a","d","m","i","n">>, Permission.ADMIN >> }

from_string_defaulting(permission) ==
  LET normalized == str_strip(str_lower(permission))
  IN IF \E e \in permission_map : e[1] = normalized
     THEN (CHOOSE e \in permission_map : e[1] = normalized)[2]
     ELSE Permission.NONE

\* Permission.from_string: a Permission, or ValueError for an unknown level
from_string(permission) ==
  LET normalized == str_strip(str_lower(permission))
  IN IF \E e \in permission_map : e[1] = normalized
     THEN (CHOOSE e \in permission_map : e[1] = normalized)[2]
     ELSE ValueError

(***************************************************************************)
(* cache = cachetools.LRUCache(maxsize=...): a sequence of entries, least  *)
(* recently used first.  maxsize stands for the 128 of the source, scaled  *)
(* down so that a handful of keys fills the cache.                         *)
(***************************************************************************)
maxsize == 2

\* PermissionCacheKey(owner, repo, username)
PermissionCacheKey(owner, repo, username) ==
  [owner |-> owner, repo |-> repo, username |-> username]

Keys ==
  { PermissionCacheKey("acme", "web", "alice"),
    PermissionCacheKey("acme", "web", "bob"),
    PermissionCacheKey("acme", "api", "alice") }

\* key in cache (does not count as a use)
cache_contains(c, k) == \E i \in 1..Len(c) : c[i].key = k

cache_index(c, k) == CHOOSE i \in 1..Len(c) : c[i].key = k

\* the value stored under k, Null when k is not cached
cache_lookup(c, k) == IF cache_contains(c, k) THEN c[cache_index(c, k)].val ELSE Null

cache_remove(c, k) ==
  LET i == cache_index(c, k) IN SubSeq(c, 1, i - 1) \o SubSeq(c, i + 1, Len(c))

cache_touch_none(c, k) == c

\* LRUCache.__getitem__ marks k as the most recently used entry
cache_touch(c, k) == Append(cache_remove(c, k), c[cache_index(c, k)])

\* cache[k] on a hit: the value, and the cache with k most recently used
cache_getitem(c, k) == [val |-> cache_lookup(c, k), cache |-> cache_touch(c, k)]

RECURSIVE cache_popitems(_)
\* Cache.__setitem__: while currsize + 1 > maxsize: popitem() (least recently used first)
cache_popitems(c) == IF Len(c) + 1 > maxsize THEN cache_popitems(Tail(c)) ELSE c

cache_setitem_skip_none(c, k, v) ==
  IF v = Permission.NONE
  THEN c
  ELSE IF cache_contains(c, k)
  THEN Append(cache_remove(c, k), [key |-> k, val |-> v])
  ELSE Append(cache_popitems(c), [key |-> k, val |-> v])

\* a cache that keeps the value it already holds under k
cache_setitem_keep_existing(c, k, v) ==
  IF cache_contains(c, k)
  THEN c
  ELSE Append(cache_popitems(c), [key |-> k, val |-> v])

\* cache[k] = v
cache_setitem(c, k, v) ==
  IF cache_contains(c, k)
  THEN Append(cache_remove(c, k), [key |-> k, val |-> v])
  ELSE Append(cache_popitems(c), [key |-> k, val |-> v])

(***************************************************************************)
(* The REST client: what gh.getitem(path) can answer.                      *)
(***************************************************************************)
\* a key missing from the JSON object
Absent == <<"absent">>

PermStrings ==
  { <<" ","R","e","a","d"," ">>,
    <<"o","w","n","e","r">> }

\* GET /repos/{owner}/{repo}/collaborators/{username}/permission:
\* a JSON object (status 200) or a gidgethub.HTTPException with a status code
PermResponses ==
  [status : {200}, permission : PermStrings \cup {Absent}]
    \cup [status : {404, 500}, permission : {Absent}]

\* GET /repos/{owner}/{repo}: the "private" field is a JSON boolean or missing
RepoResponses ==
  [status : {200}, private : {"true", "false", "absent"}]
    \cup [status : {404}, private : {"absent"}]

\* no request was made
NoPermResponse == [status |-> 0, permission |-> Absent]
NoRepoResponse == [status |-> 0, private |-> "absent"]

\* the paths of the two requests
CollabPath(k) == <<"repos", k.owner, k.repo, "collaborators", k.username, "permission">>
RepoPath(k) == <<"repos", k.owner, k.repo>>

\* data.get("permission", "none")
get_permission_str(resp) ==
  IF resp.permission = Absent THEN <<"n","o","n","e">> ELSE resp.permission

get_private_default_false(resp) == resp.private = "true"

\* repo_data.get("private", True), as a truth value
get_private(resp) == IF resp.private = "absent" THEN TRUE ELSE resp.private = "true"

(***************************************************************************)
(* get_user_permission: the synchronous resolver, one blocking call.       *)
(* r1 and r2 are the answers the client gives if it is asked.              *)
(* The result: what the call returned or raised, the cache it left, the    *)
(* requests it made.                                                       *)
(***************************************************************************)
get_user_permission_nocache(c, k, r1, r2) ==
  IF r1.status = 200
  THEN LET permission == from_string(get_permission_str(r1))
       IN IF permission = ValueError
          THEN [outcome |-> ValueError, cache |-> c, calls |-> <<CollabPath(k)>>]
          ELSE [outcome |-> permission,
                cache |-> cache_setitem(c, k, permission),
                calls |-> <<CollabPath(k)>>]
  ELSE IF r1.status = 404
  THEN LET permission ==
             IF r2.status = 200 /\ ~get_private(r2)
             THEN Permission.READ ELSE Permission.NONE
       IN [outcome |-> permission,
           cache |-> cache_setitem(c, k, permission),
           calls |-> <<CollabPath(k), RepoPath(k)>>]
  ELSE [outcome |-> Permission.NONE,
        cache |-> cache_setitem(c, k, Permission.NONE),
        calls |-> <<CollabPath(k)>>]

get_user_permission(c, k, r1, r2) ==
  IF cache_contains(c, k)
  THEN LET hit == cache_getitem(c, k)
       IN [outcome |-> hit.val, cache |-> hit.cache, calls |-> <<>>]
  ELSE IF r1.status = 200
  THEN LET permission == from_string(get_permission_str(r1))
       IN IF permission = ValueError
          THEN [outcome |-> ValueError, cache |-> c, calls |-> <<CollabPath(k)>>]
          ELSE [outcome |-> permission,
                cache |-> cache_setitem(c, k, permission),
                calls |-> <<CollabPath(k)>>]
  ELSE IF r1.status = 404
  THEN LET permission ==
             IF r2.status = 200 /\ ~get_private(r2)
             THEN Permission.READ ELSE Permission.NONE
       IN [outcome |-> permission,
           cache |-> cache_setitem(c, k, permission),
           calls |-> <<CollabPath(k), RepoPath(k)>>]
  ELSE [outcome |-> Permission.NONE,
        cache |-> cache_setitem(c, k, Permission.NONE),
        calls |-> <<CollabPath(k)>>]

(***************************************************************************)
(* aget_user_permission: the asynchronous resolver.  It runs without      *)
(* suspension up to each "await gh.getitem(...)" and from the answer to   *)
(* the next await or to its end.                                           *)
(***************************************************************************)
Tasks == {"t1", "t2"}

\* the key of no resolution
NoKey == PermissionCacheKey("", "", "")

IdleTask == [pc |-> "idle", key |-> NoKey, later |-> FALSE, required |-> Null, author |-> ""]

\* what the coroutine does with the answer to its first request
aget_on_permission(resp) ==
  IF resp.status = 200
  THEN LET permission == from_string(get_permission_str(resp))
       IN IF permission = ValueError
          THEN [next |-> "raise", permission |-> ValueError]
          ELSE [next |-> "store", permission |-> permission]
  ELSE IF resp.status = 404
  THEN [next |-> "fallback", permission |-> Permission.NONE]
  ELSE [next |-> "store", permission |-> Permission.NONE]

\* a coroutine that grants READ on every repository the client can read
aget_on_repo_any_visibility(resp) ==
  IF resp.status = 200 THEN Permission.READ ELSE Permission.NONE

\* what the coroutine does with the answer to its fallback request
aget_on_repo(resp) ==
  IF resp.status = 200 /\ ~get_private(resp)
  THEN Permission.READ
  ELSE Permission.NONE

(***************************************************************************)
(* Event-level permission check: EventInfo.from_event and                 *)
(* check_mention_permission / acheck_mention_permission.                  *)
(* The part of event.data these read, field by field; "absent" is a       *)
(* missing key.                                                            *)
(***************************************************************************)
MkEvent(comment, user, login, repository, owner, owner_login, name) ==
  [comment |-> comment, user |-> user, login |-> login,
   repository |-> repository, owner |-> owner, owner_login |-> owner_login,
   name |-> name]

PermEvents ==
  { MkEvent("present", "present", "alice", "present", "present", "acme", "web"),
    MkEvent("present", "present", "bob", "present", "present", "acme", "web"),
    MkEvent("absent", "absent", "absent", "present", "present", "acme", "web"),
    MkEvent("present", "present", "alice", "absent", "absent", "absent", "absent"),
    MkEvent("absent", "absent", "absent", "absent", "absent", "absent", "absent"),
    MkEvent("present", "absent", "absent", "present", "present", "acme", "web"),
    MkEvent("present", "present", "absent", "present", "present", "acme", "web"),
    MkEvent("present", "present", "alice", "present", "absent", "absent", "web"),
    MkEvent("present", "present", "alice", "present", "present", "absent", "web"),
    MkEvent("present", "present", "alice", "present", "present", "acme", "absent"),
    MkEvent("present", "present", "", "present", "present", "acme", "web") }

\* Python None in a field that otherwise holds a name
NoneStr == "<None>"

\* the truth value of a name or None: None and "" are false
Truthy(x) == x # NoneStr /\ x # ""

\* EventInfo.from_event: the (comment_author, owner, repo) tuple, or the
\* KeyError of a subscript on a missing key
EventInfo_from_event(event) ==
  IF \/ event.comment = "present" /\ (event.user = "absent" \/ event.login = "absent")
     \/ event.repository = "present"
        /\ (event.owner = "absent" \/ event.owner_login = "absent" \/ event.name = "absent")
  THEN [raised |-> TRUE, comment_author |-> NoneStr, owner |-> NoneStr, repo |-> NoneStr]
  ELSE [raised |-> FALSE,
        comment_author |-> IF event.comment = "present" THEN event.login ELSE NoneStr,
        owner |-> IF event.repository = "present" THEN event.owner_login ELSE NoneStr,
        repo |-> IF event.repository = "present" THEN event.name ELSE NoneStr]

\* PermissionCheck(has_permission, error_message); error_message is None or
\* PERMISSION_CHECK_ERROR_MESSAGE.format(comment_author, required, user)
PermissionCheck(has_permission, error_message) ==
  [raised |-> Null, has_permission |-> has_permission, error_message |-> error_message]

NoMessage == <<>>

\* a call that raised instead of returning a PermissionCheck
CheckRaised(exc) == [raised |-> exc, has_permission |-> FALSE, error_message |-> NoMessage]

\* the comparison and the result after the permission is resolved
check_result(comment_author, user_permission, required_permission) ==
  IF user_permission = ValueError
  THEN CheckRaised(ValueError)
  ELSE IF user_permission >= required_permission
  THEN PermissionCheck(TRUE, NoMessage)
  ELSE PermissionCheck(FALSE, <<comment_author, required_permission, user_permission>>)

\* check_mention_permission: the result, the cache it left, the requests it
\* made, and the resolution it ran (resolved, key, outcome) if it ran one
check_mention_permission(c, event, required_permission, r1, r2) ==
  LET info == EventInfo_from_event(event)
  IN IF info.raised
     THEN [result |-> CheckRaised(KeyError), cache |-> c, calls |-> <<>>,
           resolved |-> FALSE, key |-> NoKey, outcome |-> Null]
     ELSE IF ~(Truthy(info.comment_author) /\ Truthy(info.owner) /\ Truthy(info.repo))
     THEN [result |-> PermissionCheck(FALSE, NoMessage), cache |-> c, calls |-> <<>>,
           resolved |-> FALSE, key |-> NoKey, outcome |-> Null]
     ELSE LET k == PermissionCacheKey(info.owner, info.repo, info.comment_author)
              res == get_user_permission(c, k, r1, r2)
          IN [result |-> check_result(info.comment_author, res.outcome, required_permission),
              cache |-> res.cache, calls |-> res.calls,
              resolved |-> TRUE, key |-> k, outcome |-> res.outcome]

RequiredPermissions == {Permission.READ}

(***************************************************************************)
(* State.                                                                  *)
(*   cache     the process-wide LRU cache                                  *)
(*   tasks     the coroutines suspended in aget_user_permission            *)
(*   last      the resolution that ended in the step just taken: what it   *)
(*             returned or raised, the requests it made and the answers    *)
(*             it got, and whether get_user_permission ("sync") or         *)
(*             aget_user_permission ("async") ran it (NoResolution when    *)
(*             the step ended none)                                        *)
(*   firstRes, lastRes                                                     *)
(*             per key, the value returned by the first and by the most    *)
(*             recent resolution that ended since the key was last absent  *)
(*             from the cache through eviction or clear (Null: none)       *)
(*   recency   the cached keys, least recently used first, where a use of  *)
(*             a key is a resolution of it that returned (from the cache   *)
(*             or after storing)                                           *)
(*   lastCheck the event-level check that ended in the step just taken     *)
(***************************************************************************)
NoResolution ==
  [key |-> NoKey, outcome |-> Null, calls |-> <<>>,
   r1 |-> NoPermResponse, r2 |-> NoRepoResponse,
   later |-> FALSE, prevFirst |-> Null, prevLast |-> Null, evicted |-> {}, mode |-> ""]

NoEvent == MkEvent("absent", "absent", "absent", "absent", "absent", "absent", "absent")

NoCheck == [event |-> NoEvent, required |-> Null, result |-> CheckRaised(Null), calls |-> <<>>]

PermInit ==
  /\ cache = <<>>
  /\ tasks = [t \in Tasks |-> IdleTask]
  /\ last = NoResolution
  /\ firstRes = [k \in Keys |-> Null]
  /\ lastRes = [k \in Keys |-> Null]
  /\ recency = <<>>
  /\ lastCheck = NoCheck

CachedKeys(c) == {c[i].key : i \in 1..Len(c)}

\* the elements of sequence q that are in set S, in q's order
Keep(q, S) == SelectSeq(q, LAMBDA x : x \in S)

\* A resolution of k ends: it returned or raised `outcome` and left the cache c2.
Return(k, outcome, calls, r1, r2, later, c2, mode) ==
  /\ cache' = c2
  /\ last' = [key |-> k, outcome |-> outcome, calls |-> calls, r1 |-> r1, r2 |-> r2,
              later |-> later, prevFirst |-> firstRes[k], prevLast |-> lastRes[k],
              evicted |-> CachedKeys(cache) \ CachedKeys(c2), mode |-> mode]
  /\ recency' = IF outcome \in PermissionValues
                THEN Append(Keep(recency, CachedKeys(c2) \ {k}), k)
                ELSE recency
  /\ firstRes' = [j \in Keys |->
                   IF j = k /\ outcome \in PermissionValues /\ firstRes[k] = Null
                   THEN outcome
                   ELSE IF j \in CachedKeys(c2) THEN firstRes[j] ELSE Null]
  /\ lastRes' = [j \in Keys |->
                  IF j = k /\ outcome \in PermissionValues
                  THEN outcome
                  ELSE IF j \in CachedKeys(c2) THEN lastRes[j] ELSE Null]

\* An event-level check ends.
ReturnCheck(event, required, result, calls) ==
  lastCheck' = [event |-> event, required |-> required, result |-> result, calls |-> calls]

\* get_user_permission(gh, owner, repo, username)
GetUserPermission(k, r1, r2) ==
  LET res == get_user_permission(cache, k, r1, r2)
  IN /\ Return(k, res.outcome, res.calls,
               IF Len(res.calls) >= 1 THEN r1 ELSE NoPermResponse,
               IF Len(res.calls) >= 2 THEN r2 ELSE NoRepoResponse,
               firstRes[k] # Null, res.cache, "sync")
     /\ lastCheck' = NoCheck
     /\ UNCHANGED tasks
     /\ UNCHANGED <<rvars, mvars, vvars>>

\* aget_user_permission(gh, owner, repo, username) up to its first await, or
\* to its return on a cache hit.  required is Null, or the threshold of the
\* acheck_mention_permission call that awaits this resolution.
AStart(t, k, required, event) ==
  /\ tasks[t].pc = "idle"
  /\ UNCHANGED <<rvars, mvars, vvars>>
  /\ IF cache_contains(cache, k)
     THEN LET hit == cache_getitem(cache, k)
          IN /\ Return(k, hit.val, <<>>, NoPermResponse, NoRepoResponse,
                       firstRes[k] # Null, hit.cache, "async")
             /\ IF required = Null
                THEN lastCheck' = NoCheck
                ELSE ReturnCheck(event, required,
                                 check_result(k.username, hit.val, required), <<>>)
             /\ UNCHANGED tasks
     ELSE /\ tasks' = [tasks EXCEPT ![t] =
                         [pc |-> "await_perm", key |-> k, later |-> firstRes[k] # Null,
                          required |-> required, author |-> k.username]]
          /\ last' = NoResolution
          /\ lastCheck' = NoCheck
          /\ UNCHANGED <<cache, firstRes, lastRes, recency>>

AGetUserPermission(t, k) ==
  AStart(t, k, Null, NoEvent)

\* the event a suspended acheck_mention_permission call was given
TaskEvent(t) ==
  MkEvent("present", "present", tasks[t].author, "present", "present",
          tasks[t].key.owner, tasks[t].key.repo)

\* the caller of a task that ended, when the caller is acheck_mention_permission
AFinishCheck(t, outcome, calls) ==
  IF tasks[t].required = Null
  THEN lastCheck' = NoCheck
  ELSE ReturnCheck(TaskEvent(t), tasks[t].required,
                   check_result(tasks[t].author, outcome, tasks[t].required), calls)

\* the answer to "await gh.getitem(.../collaborators/{username}/permission)"
APermissionResponse(t, resp) ==
  /\ tasks[t].pc = "await_perm"
  /\ UNCHANGED <<rvars, mvars, vvars>>
  /\ LET k == tasks[t].key
         step == aget_on_permission(resp)
     IN IF step.next = "fallback"
        THEN /\ tasks' = [tasks EXCEPT ![t].pc = "await_repo"]
             /\ last' = NoResolution
             /\ lastCheck' = NoCheck
             /\ UNCHANGED <<cache, firstRes, lastRes, recency>>
        ELSE /\ Return(k, step.permission, <<CollabPath(k)>>, resp, NoRepoResponse,
                       tasks[t].later,
                       IF step.next = "raise" THEN cache
                       ELSE cache_setitem(cache, k, step.permission), "async")
             /\ AFinishCheck(t, step.permission, <<CollabPath(k)>>)
             /\ tasks' = [tasks EXCEPT ![t] = IdleTask]

\* the answer to "await gh.getitem(/repos/{owner}/{repo})"
ARepoResponse(t, resp) ==
  /\ tasks[t].pc = "await_repo"
  /\ UNCHANGED <<rvars, mvars, vvars>>
  /\ LET k == tasks[t].key
         permission == aget_on_repo(resp)
     IN /\ Return(k, permission, <<CollabPath(k), RepoPath(k)>>,
                  [status |-> 404, permission |-> Absent], resp,
                  tasks[t].later, cache_setitem(cache, k, permission), "async")
        /\ AFinishCheck(t, permission, <<CollabPath(k), RepoPath(k)>>)
        /\ tasks' = [tasks EXCEPT ![t] = IdleTask]

\* cache.clear()
CacheClear ==
  /\ cache # <<>>
  /\ cache' = <<>>
  /\ firstRes' = [k \in Keys |-> Null]
  /\ lastRes' = [k \in Keys |-> Null]
  /\ recency' = <<>>
  /\ last' = NoResolution
  /\ lastCheck' = NoCheck
  /\ UNCHANGED tasks
  /\ UNCHANGED <<rvars, mvars, vvars>>

\* the keys the coroutines of the model are started on
AsyncKeys ==
  { PermissionCacheKey("acme", "web", "alice"),
    PermissionCacheKey("acme", "web", "bob") }

(***************************************************************************)
(* The router's state.                                                     *)
(*   routes     the routes of the router, in the order add() appended them *)
(*   wrappers   the wrappers the mention decorator made, in that order     *)
(*   bound      what each function name of the application is bound to     *)
(*              once the decorators on it have been applied                *)
(*   dispatched the dispatch or adispatch call of the step just taken: the *)
(*              event, the order in which the fetched callbacks were       *)
(*              iterated, what each callback that was called did, and the  *)
(*              exception that left the call (NoDispatch otherwise)        *)
(*   decorators the decorator objects that the calls of mention returned,  *)
(*              in the order of the calls: the kwargs each call was given, *)
(*              the kwargs dict its closure holds now, the wrappers its    *)
(*              applications made, and the exception the last application  *)
(*              raised                                                     *)
(***************************************************************************)
\* the functions of the application; those of AsyncFuncs are "async def"
FuncNames == {"f", "g", "h", "p", "q"}
AsyncFuncs == {"h"}
\* the exception the body of q raises
HandlerError == 103

\* a callable: an undecorated function (kind "func", named) or a wrapper
\* made by the mention decorator (kind "wrapper", numbered in the order of
\* creation; name is the __name__ that wraps() copies)
Func(name) == [kind |-> "func", id |-> 0, name |-> name]
WrapperRef(id, name) == [kind |-> "wrapper", id |-> id, name |-> name]

\* A webhook event: its type, data["action"] ("absent": no such key), what
\* data["issue"] says of pull_request ("no_issue", "absent", "null",
\* "present"), data["comment"] ("absent", "null", "present") with its body,
\* and data["review"] ("absent", "present") with its body.
WebhookEvent(event, action, pull_request, comment, body, review, review_body) ==
  [event |-> event, action |-> action, pull_request |-> pull_request,
   comment |-> comment, body |-> body, review |-> review, review_body |-> review_body]

NoDispatch ==
  [event |-> WebhookEvent("", "absent", "no_issue", "absent", <<>>, "absent", <<>>),
   mode |-> "", order |-> <<>>, runs |-> <<>>, raised |-> Null]

\* no route, no wrapper, every name bound to its function, nothing dispatched
RouterInit ==
  /\ routes = <<>>
  /\ wrappers = <<>>
  /\ bound = [name \in FuncNames |-> Func(name)]
  /\ dispatched = NoDispatch
  /\ decorators = <<>>

\* no function of mentions.py is being called on its own

\* no router object, an empty registry, no view
ViewInit ==
  /\ objects = <<>>
  /\ registry = <<>>
  /\ views = 0
  /\ reads = <<>>

Init == PermInit /\ RouterInit /\ input = [fn |-> ""] /\ output = [done |-> FALSE] /\ ViewInit

Next ==
  \/ \E k \in Keys, r1 \in PermResponses :
       \E r2 \in IF r1.status = 404 THEN RepoResponses ELSE {NoRepoResponse} :
         GetUserPermission(k, r1, r2)
  \/ \E t \in Tasks, k \in AsyncKeys : AGetUserPermission(t, k)
  \/ \E t \in Tasks, resp \in PermResponses : APermissionResponse(t, resp)
  \/ \E t \in Tasks, resp \in RepoResponses : ARepoResponse(t, resp)
  \/ CacheClear

Spec == Init /\ [][Next]_vars

(***************************************************************************)
(* The event-level checks as a system of their own.                       *)
(***************************************************************************)
\* check_mention_permission(event, gh, required_permission)
CheckMentionPermission(event, required, r1, r2) ==
  LET res == check_mention_permission(cache, event, required, r1, r2)
  IN /\ IF res.resolved
        THEN Return(res.key, res.outcome, res.calls,
                    IF Len(res.calls) >= 1 THEN r1 ELSE NoPermResponse,
                    IF Len(res.calls) >= 2 THEN r2 ELSE NoRepoResponse,
                    firstRes[res.key] # Null, res.cache, "sync")
        ELSE /\ last' = NoResolution
             /\ UNCHANGED <<cache, firstRes, lastRes, recency>>
     /\ ReturnCheck(event, required, res.result, res.calls)
     /\ UNCHANGED tasks
     /\ UNCHANGED <<rvars, mvars, vvars>>

\* acheck_mention_permission(event, gh, required_permission) up to its await
\* of aget_user_permission, or to its end when it does not get that far
ACheckMentionPermission(t, event, required) ==
  LET info == EventInfo_from_event(event)
  IN IF info.raised
     THEN /\ tasks[t].pc = "idle"
          /\ ReturnCheck(event, required, CheckRaised(KeyError), <<>>)
          /\ last' = NoResolution
          /\ UNCHANGED <<cache, tasks, firstRes, lastRes, recency>>
          /\ UNCHANGED <<rvars, mvars, vvars>>
     ELSE IF ~(Truthy(info.comment_author) /\ Truthy(info.owner) /\ Truthy(info.repo))
     THEN /\ tasks[t].pc = "idle"
          /\ ReturnCheck(event, required, PermissionCheck(FALSE, NoMessage), <<>>)
          /\ last' = NoResolution
          /\ UNCHANGED <<cache, tasks, firstRes, lastRes, recency>>
          /\ UNCHANGED <<rvars, mvars, vvars>>
     ELSE AStart(t, PermissionCacheKey(info.owner, info.repo, info.comment_author),
                 required, event)

\* the event names all three of author, owner and repo, so the client is asked
\* unless the cache answers
NamesAll(e) ==
  /\ ~EventInfo_from_event(e).raised
  /\ Truthy(EventInfo_from_event(e).comment_author)
  /\ Truthy(EventInfo_from_event(e).owner)
  /\ Truthy(EventInfo_from_event(e).repo)

\* the coroutines that run event-level checks
CheckTasks == {"t1"}

CheckNext ==
  \/ \E e \in PermEvents, req \in RequiredPermissions :
       \E r1 \in IF NamesAll(e) THEN PermResponses ELSE {NoPermResponse} :
         \E r2 \in IF r1.status = 404 THEN RepoResponses ELSE {NoRepoResponse} :
           CheckMentionPermission(e, req, r1, r2)
  \/ \E t \in CheckTasks, e \in PermEvents, req \in RequiredPermissions :
       ACheckMentionPermission(t, e, req)
  \/ \E t \in CheckTasks, resp \in PermResponses : APermissionResponse(t, resp)
  \/ \E t \in CheckTasks, resp \in RepoResponses : ARepoResponse(t, resp)
  \/ CacheClear

SpecCheck == Init /\ [][CheckNext]_vars

(***************************************************************************)
(* mentions.py: finding @username mentions in a comment body.             *)
(* Positions are 0-based offsets as in the source; body[a:b] is            *)
(* Slice(body, a, b).                                                      *)
(***************************************************************************)
DigitChars == {"0","1","2","3","4","5","6","7","8","9"}

\* [a-z\d] under re.IGNORECASE
IsAlnum(c) ==
  \/ c \in DigitChars
  \/ \E i \in 1..Len(LowerChars) : LowerChars[i] = c \/ UpperChars[i] = c

\* body[a:b]
Slice(text, a, b) ==
  LET lo == IF a < 0 THEN 0 ELSE a
      hi == IF b > Len(text) THEN Len(text) ELSE b
  IN IF hi <= lo THEN <<>> ELSE SubSeq(text, lo + 1, hi)

\* text with the characters at offsets a..b-1 replaced by spaces
\* (the lambda m: " " * len(m.group(0)) of the three substitutions)
Blank(text, a, b) == [i \in 1..Len(text) |-> IF a < i /\ i <= b THEN " " ELSE text[i]]

\* the least offset >= from at which P holds, Len(text) when there is none
FirstAt(text, from, P(_)) ==
  LET at == {i \in from..(Len(text) - 1) : P(i)}
  IN IF at = {} THEN Len(text) ELSE CHOOSE i \in at : \A j \in at : i <= j

\* the backtick character (a string of the module cannot hold one)
Backtick == "BACKTICK"

\* three backticks start at offset i
FenceAt(text, i) ==
  i + 3 <= Len(text) /\ text[i + 1] = Backtick /\ text[i + 2] = Backtick /\ text[i + 3] = Backtick

\* the non-overlapping matches of a pattern, leftmost first, as <<start, end>>
\* pairs, searching from offset `from`
RECURSIVE CodeBlockMatches(_, _)
\* CODE_BLOCK_PATTERN = ```[\s\S]*?```
CodeBlockMatches(text, from) ==
  LET closed(open, close) ==
        IF open >= Len(text) \/ close >= Len(text)
        THEN <<>>
        ELSE <<<<open, close + 3>>>> \o CodeBlockMatches(text, close + 3)
      opened(open) == closed(open, FirstAt(text, open + 3, LAMBDA i : FenceAt(text, i)))
  IN opened(FirstAt(text, from, LAMBDA i : FenceAt(text, i)))

RECURSIVE InlineCodeMatches(_, _)
\* INLINE_CODE_PATTERN = `[^`]+`
InlineCodeMatches(text, from) ==
  LET closed(open, close) ==
        IF open >= Len(text) \/ close >= Len(text)
        THEN <<>>
        ELSE IF close = open + 1
        THEN InlineCodeMatches(text, close)
        ELSE <<<<open, close + 1>>>> \o InlineCodeMatches(text, close + 1)
      opened(open) == closed(open, FirstAt(text, open + 1, LAMBDA i : text[i + 1] = Backtick))
  IN opened(FirstAt(text, from, LAMBDA i : text[i + 1] = Backtick))

\* ^ under re.MULTILINE matches at offset i
LineStartAt(text, i) == i = 0 \/ text[i] = "\n"

\* ^\s*>.*$ matches at offset i: the offset where the match ends, or -1
BlockquoteEnd(text, i) ==
  LET quoted(q) ==
        IF LineStartAt(text, i) /\ q < Len(text) /\ text[q + 1] = ">"
        THEN FirstAt(text, q, LAMBDA j : text[j + 1] = "\n")
        ELSE 0 - 1
  IN quoted(FirstAt(text, i, LAMBDA j : text[j + 1] \notin Whitespace))

RECURSIVE BlockquoteMatches(_, _)
\* BLOCKQUOTE_PATTERN = ^\s*>.*$ with re.MULTILINE
BlockquoteMatches(text, from) ==
  LET ended(start, end) ==
        <<<<start, end>>>> \o BlockquoteMatches(text, end)
      started(start) ==
        IF start >= Len(text) THEN <<>> ELSE ended(start, BlockquoteEnd(text, start))
  IN started(FirstAt(text, from, LAMBDA i : BlockquoteEnd(text, i) >= 0))

RECURSIVE BlankAll(_, _)
\* PATTERN.sub(lambda m: " " * len(m.group(0)), text)
BlankAll(text, matches) ==
  IF matches = <<>> THEN text
  ELSE BlankAll(Blank(text, matches[1][1], matches[1][2]), Tail(matches))

\* the text extract_all_mentions searches: code blocks, then inline code,
\* then blockquotes replaced by spaces
processed_text(text) ==
  LET blank_blockquotes(t) == BlankAll(t, BlockquoteMatches(t, 0))
      blank_inline_code(t) == blank_blockquotes(BlankAll(t, InlineCodeMatches(t, 0)))
  IN blank_inline_code(BlankAll(text, CodeBlockMatches(text, 0)))

\* the {0,38} of GITHUB_MENTION_PATTERN
MaxRepeat == 38

RECURSIVE UsernameEnd(_, _, _)
\* (?:[a-z\d]|-(?=[a-z\d])){0,38} from offset i with n repetitions left:
\* the offset where the greedy match ends
UsernameEnd(text, i, n) ==
  IF n = 0 \/ i >= Len(text) THEN i
  ELSE IF IsAlnum(text[i + 1]) THEN UsernameEnd(text, i + 1, n - 1)
  ELSE IF text[i + 1] = "-" /\ i + 1 < Len(text) /\ IsAlnum(text[i + 2])
  THEN UsernameEnd(text, i + 1, n - 1)
  ELSE i

\* (?:^|(?<=\s))@[a-z\d] matches at offset i
MentionAt(text, i) ==
  /\ i + 1 < Len(text)
  /\ text[i + 1] = "@"
  /\ (LineStartAt(text, i) \/ text[i] \in Whitespace)
  /\ IsAlnum(text[i + 2])

RECURSIVE MentionMatches(_, _)
\* GITHUB_MENTION_PATTERN.finditer(processed_text)
MentionMatches(text, from) ==
  LET ended(start, end) == <<<<start, end>>>> \o MentionMatches(text, end)
      started(start) ==
        IF start >= Len(text) THEN <<>>
        ELSE ended(start, UsernameEnd(text, start + 2, MaxRepeat))
  IN started(FirstAt(text, from, LAMBDA i : MentionAt(text, i)))

\* extract_all_mentions: the RawMention list
extract_all_mentions(text) ==
  LET raw(pt, ms) ==
        [i \in 1..Len(ms) |->
           [username |-> Slice(pt, ms[i][1] + 1, ms[i][2]),
            position |-> ms[i][1],
            end |-> ms[i][2]]]
      found(pt) == raw(pt, MentionMatches(pt, 0))
  IN found(processed_text(text))

\* IndexError, the exception of a list index out of range
IndexError == 104

\* LineInfo.for_mention_in_comment(comment, mention_position): lineno and
\* text, or the exception raised.  str.splitlines() ends a line at "\n",
\* at "\r\n" and at "\r", and gives no empty last line; str.count("\n")
\* counts the "\n" only.
LineInfo_for_mention_in_comment(comment, mention_position) ==
  LET RECURSIVE splitlines(_, _)
      splitlines(i, line) ==
        IF i > Len(comment) THEN (IF line = <<>> THEN <<>> ELSE <<line>>)
        ELSE IF comment[i] = "\n" THEN <<line>> \o splitlines(i + 1, <<>>)
        ELSE IF comment[i] = "\r"
        THEN <<line>> \o splitlines(IF i < Len(comment) /\ comment[i + 1] = "\n"
                                    THEN i + 2 ELSE i + 1, <<>>)
        ELSE splitlines(i + 1, Append(line, comment[i]))
      getitem(list, index) ==
        IF index < Len(list) THEN [raised |-> Null, item |-> list[index + 1]]
        ELSE [raised |-> IndexError, item |-> <<>>]
      made(lines, text_before) ==
        LET line_number == Cardinality({i \in 1..Len(text_before) : text_before[i] = "\n"}) + 1
            line_index == line_number - 1
            line_text == IF line_index < Len(lines) THEN getitem(lines, line_index)
                         ELSE [raised |-> Null, item |-> <<>>]
        IN [raised |-> line_text.raised, lineno |-> line_number, text |-> line_text.item]
  IN made(splitlines(1, <<>>), Slice(comment, 0, mention_position))

\* the text from this mention to the end of the body
extract_mention_text_to_end(body, current_index, all_mentions, mention_end) ==
  str_strip(Slice(body, mention_end, Len(body)))

\* extract_mention_text: the text between this mention and the next raw one
extract_mention_text(body, current_index, all_mentions, mention_end) ==
  LET text_end == IF current_index + 1 <= Len(all_mentions)
                  THEN all_mentions[current_index + 1].position
                  ELSE Len(body)
  IN str_strip(Slice(body, mention_end, text_end))

(***************************************************************************)
(* mentions.py: patterns, scopes, events and the mentions of an event.    *)
(***************************************************************************)
\* a str | re.Pattern | None argument.  The regular expressions of the
\* model are those of the form .*<literal>, named by the literal, compiled
\* with no flag or with re.IGNORECASE.
NonePattern == [kind |-> "none", s |-> <<>>, flags |-> {}]
StrPattern(s) == [kind |-> "str", s |-> s, flags |-> {}]
RePattern(suffix) == [kind |-> "re", s |-> suffix, flags |-> {}]
\* re.compile(".*<suffix>", flags)
re_compile(suffix, flags) == [kind |-> "re", s |-> suffix, flags |-> flags]

\* text ends with suffix and has no line break before it: .*<suffix> matches
\* all of text
re_fullmatch(suffix, text) ==
  /\ Len(text) >= Len(suffix)
  /\ Slice(text, Len(text) - Len(suffix), Len(text)) = suffix
  /\ \A i \in 1..(Len(text) - Len(suffix)) : text[i] # "\n"

\* matches_pattern(text, pattern); pattern.fullmatch(text) compares
\* without case when the pattern was compiled with re.IGNORECASE
matches_pattern(text, pattern) ==
  LET fold(t) == IF "IGNORECASE" \in pattern.flags THEN str_lower(t) ELSE t
  IN CASE pattern.kind = "none" -> TRUE
       [] pattern.kind = "re" -> re_fullmatch(fold(pattern.s), fold(text))
       [] pattern.kind = "str" -> str_lower(str_strip(text)) = str_lower(str_strip(pattern.s))

\* a re.Match (matched, with the offset where the match ends) or None
NoMatch == [matched |-> FALSE, end |-> 0]
Match(end) == [matched |-> TRUE, end |-> end]

\* the offset where the longest match of .*<suffix> from the start of text ends
re_match_end(suffix, text) ==
  LET last_of(ends) == IF ends = {} THEN 0 - 1 ELSE CHOOSE k \in ends : \A j \in ends : j <= k
  IN last_of({k \in 0..Len(text) : re_fullmatch(suffix, Slice(text, 0, k))})

\* a content matcher that looks for the literal anywhere in the text
get_match_search(text, pattern) ==
  LET fold(t) == IF "IGNORECASE" \in pattern.flags THEN str_lower(t) ELSE t
      matched_to(end) == IF end >= 0 THEN Match(end) ELSE NoMatch
      found(starts) ==
        IF starts = {} THEN NoMatch
        ELSE Match((CHOOSE k \in starts : \A j \in starts : k <= j) + Len(pattern.s))
  IN CASE pattern.kind = "none" -> Match(Len(text))
       [] pattern.kind = "re" -> matched_to(re_match_end(fold(pattern.s), fold(text)))
       [] pattern.kind = "str" ->
            found({k \in 0..Len(text) :
                     /\ k + Len(pattern.s) <= Len(text)
                     /\ str_lower(Slice(text, k, k + Len(pattern.s))) = str_lower(pattern.s)})

\* get_match(text, pattern); pattern.match(text) uses the flags the pattern
\* was compiled with, and the escaped literal matches itself, without case
get_match(text, pattern) ==
  LET fold(t) == IF "IGNORECASE" \in pattern.flags THEN str_lower(t) ELSE t
      matched_to(end) == IF end >= 0 THEN Match(end) ELSE NoMatch
  IN CASE pattern.kind = "none" -> Match(Len(text))
       [] pattern.kind = "re" -> matched_to(re_match_end(fold(pattern.s), fold(text)))
       [] pattern.kind = "str" ->
            IF str_lower(Slice(text, 0, Len(pattern.s))) = str_lower(pattern.s)
            THEN Match(Len(pattern.s)) ELSE NoMatch

\* MentionScope, in the order the enum lists its members; NoneStr is None
MentionScope == [COMMIT |-> "commit", ISSUE |-> "issue", PR |-> "pr"]
MentionScopes == <<MentionScope.COMMIT, MentionScope.ISSUE, MentionScope.PR>>

EventAction(event, action) == [event |-> event, action |-> action]

\* MentionScope.get_events
get_events(scope) ==
  CASE scope = MentionScope.ISSUE -> <<EventAction("issue_comment", "created")>>
    [] scope = MentionScope.PR ->
         <<EventAction("issue_comment", "created"),
           EventAction("pull_request_review_comment", "created"),
           EventAction("pull_request_review", "submitted")>>
    [] scope = MentionScope.COMMIT -> <<EventAction("commit_comment", "created")>>

\* a list that keeps every occurrence
fromkeys_keep_all(items) == items

RECURSIVE fromkeys(_)
\* list(dict.fromkeys(items)): the first occurrence of each item, in order
fromkeys(items) ==
  IF items = <<>> THEN <<>>
  ELSE LET init == fromkeys(SubSeq(items, 1, Len(items) - 1))
           x == items[Len(items)]
       IN IF \E i \in 1..Len(init) : init[i] = x THEN init ELSE Append(init, x)

\* MentionScope.all_events
all_events ==
  fromkeys(get_events(MentionScopes[1]) \o get_events(MentionScopes[2])
             \o get_events(MentionScopes[3]))

\* a scope that takes every issue_comment whose issue has a pull_request
\* key for a comment on a pull request
from_event_key_only(event) ==
  IF event.event = "issue_comment"
  THEN IF event.pull_request \in {"present", "null"}
       THEN MentionScope.PR ELSE MentionScope.ISSUE
  ELSE IF event.event \in {"pull_request_review_comment", "pull_request_review"}
  THEN MentionScope.PR
  ELSE IF event.event = "commit_comment" THEN MentionScope.COMMIT ELSE NoneStr

\* MentionScope.from_event
MentionScope_from_event(event) ==
  IF event.event = "issue_comment"
  THEN IF event.pull_request = "present" THEN MentionScope.PR ELSE MentionScope.ISSUE
  ELSE LET hits == {i \in 1..Len(MentionScopes) :
                      \E j \in 1..Len(get_events(MentionScopes[i])) :
                        get_events(MentionScopes[i])[j].event = event.event}
       IN IF hits = {} THEN NoneStr
          ELSE MentionScopes[CHOOSE i \in hits : \A j \in hits : i <= j]

\* the username the source puts in place of a missing username pattern
Placeholder == StrPattern(<<"b","o","t">>)

\* ParsedMention (line_info is not part of this model).  A link to another
\* mention is the position of that mention, which names it among the
\* mentions of one body; -1 is None.
ParsedMention(username, text, position, match, previous_mention, next_mention) ==
  [username |-> username, text |-> text, position |-> position, match |-> match,
   previous_mention |-> previous_mention, next_mention |-> next_mention]

\* a linking loop that sets next_mention only
link_mentions_forward_only(mentions) ==
  [i \in 1..Len(mentions) |->
     [mentions[i] EXCEPT
        !.next_mention = IF i < Len(mentions) THEN mentions[i + 1].position ELSE 0 - 1]]

\* "# link mentions": the loop that sets previous_mention and next_mention
link_mentions(mentions) ==
  [i \in 1..Len(mentions) |->
     [mentions[i] EXCEPT
        !.previous_mention = IF i > 1 THEN mentions[i - 1].position ELSE 0 - 1,
        !.next_mention = IF i < Len(mentions) THEN mentions[i + 1].position ELSE 0 - 1]]

\* extract_mentions_from_event(event, username_pattern), computed
extract_mentions(event, username_pattern) ==
  LET parsed(comment, potential_mentions, kept) ==
        link_mentions(
          [n \in 1..Len(kept) |->
             ParsedMention(potential_mentions[kept[n]].username,
                           extract_mention_text(comment, kept[n], potential_mentions,
                                                potential_mentions[kept[n]].end),
                           potential_mentions[kept[n]].position,
                           NoMatch, 0 - 1, 0 - 1)])
      filtered(comment, pattern, potential_mentions) ==
        parsed(comment, potential_mentions,
               SelectSeq([i \in 1..Len(potential_mentions) |-> i],
                         LAMBDA i : matches_pattern(potential_mentions[i].username, pattern)))
      extracted(comment, pattern) ==
        IF comment = <<>> THEN <<>>
        ELSE filtered(comment, pattern, extract_all_mentions(comment))
  IN extracted(IF event.comment = "present" THEN event.body ELSE <<>>,
               IF username_pattern = NonePattern THEN Placeholder ELSE username_pattern)

\* "@bot help @amy hi @bot deploy\n@Bot h"
BodyMany ==
  <<"@","b","o","t"," ","h","e","l","p"," ","@","a","m","y"," ","h","i"," ","@","b","o","t"," ","d","e","p","l","o","y","\n","@","B","o","t"," ","h">>

\* "@bot help"
BodyHelp == <<"@","b","o","t"," ","h","e","l","p">>

\* "> @bot help\n`@bot h` @bot hello"
BodyQuoted ==
  <<">"," ","@","b","o","t"," ","h","e","l","p","\n",Backtick,"@","b","o","t"," ","h",Backtick," ","@","b","o","t"," ","h","e","l","l","o">>

\* "@amy help @bot-x h"
BodyOthers == <<"@","a","m","y"," ","h","e","l","p"," ","@","b","o","t","-","x"," ","h">>

\* "@bot deploy"
BodyDeploy == <<"@","b","o","t"," ","d","e","p","l","o","y">>

\* the events delivered to the router
RouterEvents ==
  { WebhookEvent("issue_comment", "created", "absent", "present", BodyMany, "absent", <<>>),
    WebhookEvent("issue_comment", "created", "present", "present", BodyHelp, "absent", <<>>),
    WebhookEvent("issue_comment", "created", "null", "present", BodyQuoted, "absent", <<>>),
    WebhookEvent("issue_comment", "edited", "absent", "present", BodyHelp, "absent", <<>>),
    WebhookEvent("issue_comment", "created", "absent", "present", <<>>, "absent", <<>>),
    WebhookEvent("pull_request_review_comment", "created", "no_issue", "present", BodyOthers,
                 "absent", <<>>),
    WebhookEvent("pull_request_review", "submitted", "no_issue", "absent", <<>>,
                 "present", BodyHelp),
    WebhookEvent("commit_comment", "created", "no_issue", "present", BodyDeploy, "absent", <<>>),
    WebhookEvent("discussion_comment", "created", "no_issue", "present", BodyHelp,
                 "absent", <<>>) }

\* the mentions of each event of the model under each username argument of
\* the application's mention decorators
EventMentions ==
  {<<x[1], x[2], extract_mentions(x[1], x[2])>> :
     x \in RouterEvents \X {NonePattern, StrPattern(<<"a","m","y">>), RePattern(<<>>)}}

\* extract_mentions_from_event(event, username_pattern)
extract_mentions_from_event(event, username_pattern) ==
  (CHOOSE x \in EventMentions : x[1] = event /\ x[2] = username_pattern)[3]

\* Comment.from_event: the Comment (its body; mentions starts empty), or the
\* ValueError raised when the event carries no comment data
Comment_from_event(event) ==
  LET has_data == IF event.event \in {"issue_comment", "pull_request_review_comment",
                                      "commit_comment"}
                  THEN event.comment = "present"
                  ELSE IF event.event = "pull_request_review"
                  THEN event.review = "present"
                  ELSE FALSE
      body == IF event.event = "pull_request_review" THEN event.review_body ELSE event.body
  IN IF has_data
     THEN [raised |-> Null, body |-> body, mentions |-> <<>>]
     ELSE [raised |-> ValueError, body |-> <<>>, mentions |-> <<>>]

(***************************************************************************)
(* routing.py: the router, its decorators and its wrappers.               *)
(***************************************************************************)
TypeError == 102

\* iscoroutinefunction(func), ws being the wrappers made so far
iscoroutinefunction(ws, func) ==
  IF func.kind = "func" THEN func.name \in AsyncFuncs ELSE ws[func.id].is_async

\* The keyword arguments of a mention(...) call: the keys given and their
\* values (a value under a key that was not given is never read, and the
\* code reads the value of no key but pattern, username and scope).
Kwargs(keys, pattern, username, scope) ==
  [keys |-> keys, pattern |-> pattern, username |-> username, scope |-> scope]

\* kwargs.pop(key, None): the value
kwargs_pop_pattern(kwargs) == IF "pattern" \in kwargs.keys THEN kwargs.pattern ELSE NonePattern
kwargs_pop_username(kwargs) == IF "username" \in kwargs.keys THEN kwargs.username ELSE NonePattern
kwargs_pop_scope(kwargs) == IF "scope" \in kwargs.keys THEN kwargs.scope ELSE NoneStr

\* gidgethub's Router.add(func, event_type, **data_detail) on the routes rs,
\* kept in the order of insertion; data_detail is a sequence of <<key, value>>
add(rs, func, event_type, data_detail, via) ==
  IF Len(data_detail) > 1
  THEN [raised |-> TypeError, routes |-> rs]
  ELSE [raised |-> Null,
        routes |-> Append(rs,
          [callback |-> func, event_type |-> event_type, via |-> via,
           data_key |-> IF data_detail = <<>> THEN "" ELSE data_detail[1][1],
           data_value |-> IF data_detail = <<>> THEN "" ELSE data_detail[1][2]])]

\* gidgethub's Router.fetch(event): the frozenset of the callbacks of the
\* event type's shallow routes and of its deep routes whose data detail the
\* event's data carries
fetch(rs, event) ==
  {rs[i].callback : i \in {j \in 1..Len(rs) :
      /\ rs[j].event_type = event.event
      /\ \/ rs[j].data_key = ""
         \/ /\ rs[j].data_key = "action"
            /\ event.action # "absent"
            /\ rs[j].data_value = event.action}}

\* a context whose comment lists the triggering mention only
MentionContext_triggering_only(wrapper, comment, triggered_by, scope) ==
  [wrapper |-> wrapper, comment |-> [comment EXCEPT !.mentions = <<triggered_by>>],
   triggered_by |-> triggered_by, scope |-> scope]

\* MentionContext(comment, triggered_by, scope), with the wrapper that built it
MentionContext(wrapper, comment, triggered_by, scope) ==
  [wrapper |-> wrapper, comment |-> comment, triggered_by |-> triggered_by, scope |-> scope]

NoContext ==
  MentionContext(0, [raised |-> Null, body |-> <<>>, mentions |-> <<>>],
                 ParsedMention(<<>>, <<>>, 0 - 1, NoMatch, 0 - 1, 0 - 1), NoneStr)

\* what a call of a callable did: the helper calls it made, in order, the
\* calls of undecorated functions it led to, and the exception it raised
Ran(steps, calls, raised) == [steps |-> steps, calls |-> calls, raised |-> raised]

RECURSIVE call(_, _, _, _)
RECURSIVE invoke_mentions(_, _, _, _, _, _, _)
RECURSIVE invoke_mentions_break(_, _, _, _, _, _, _)
RECURSIVE sync_wrapper(_, _, _)
RECURSIVE sync_wrapper_scope_last(_, _, _)

\* the body of the for loop of a wrapper, ended at the first mention the
\* pattern does not match
invoke_mentions_break(ws, id, event, comment, event_scope, mentions, n) ==
  LET then(first, rest) ==
        IF first.raised # Null THEN first
        ELSE Ran(first.steps \o rest.steps, first.calls \o rest.calls, rest.raised)
      called(marked) ==
        then(call(ws, ws[id].func, event,
                  MentionContext(id, [comment EXCEPT !.mentions = marked], marked[n],
                                 event_scope)),
             invoke_mentions_break(ws, id, event, [comment EXCEPT !.mentions = marked], event_scope,
                             marked, n + 1))
      body(pattern, match) ==
        IF pattern # NonePattern /\ ~match.matched
        THEN Ran(<<>>, <<>>, Null)
        ELSE called(IF pattern # NonePattern
                    THEN [mentions EXCEPT ![n].match = match] ELSE mentions)
  IN IF n > Len(mentions) THEN Ran(<<>>, <<>>, Null)
     ELSE body(ws[id].pattern, get_match(mentions[n].text, ws[id].pattern))

\* "for mention in mentions: ..." of a wrapper, from the n-th mention on.
\* "mention.match = match" sets the match on the object that comment.mentions
\* holds: marked is the list once that is done.
invoke_mentions(ws, id, event, comment, event_scope, mentions, n) ==
  LET then(first, rest) ==
        IF first.raised # Null THEN first
        ELSE Ran(first.steps \o rest.steps, first.calls \o rest.calls, rest.raised)
      called(marked) ==
        then(call(ws, ws[id].func, event,
                  MentionContext(id, [comment EXCEPT !.mentions = marked], marked[n],
                                 event_scope)),
             invoke_mentions(ws, id, event, [comment EXCEPT !.mentions = marked], event_scope,
                             marked, n + 1))
      body(pattern, match) ==
        IF pattern # NonePattern /\ ~match.matched
        THEN invoke_mentions(ws, id, event, comment, event_scope, mentions, n + 1)
        ELSE called(IF pattern # NonePattern
                    THEN [mentions EXCEPT ![n].match = match] ELSE mentions)
  IN IF n > Len(mentions) THEN Ran(<<>>, <<>>, Null)
     ELSE body(ws[id].pattern, get_match(mentions[n].text, ws[id].pattern))

\* a wrapper that extracts the mentions before it compares the scopes
sync_wrapper_scope_last(ws, id, event) ==
  LET looped(loop) ==
        Ran(<<"get_event_scope", "parse_mentions_for_username", "Comment.from_event">>
              \o loop.steps, loop.calls, loop.raised)
      body(event_scope, mentions, comment) ==
        IF mentions = <<>>
        THEN Ran(<<"get_event_scope", "parse_mentions_for_username">>, <<>>, Null)
        ELSE IF ws[id].scope # NoneStr /\ event_scope # ws[id].scope
        THEN Ran(<<"get_event_scope", "parse_mentions_for_username">>, <<>>, Null)
        ELSE IF comment.raised # Null
        THEN Ran(<<"get_event_scope", "parse_mentions_for_username", "Comment.from_event">>,
                 <<>>, comment.raised)
        ELSE looped(invoke_mentions(ws, id, event, [comment EXCEPT !.mentions = mentions],
                                    event_scope, mentions, 1))
  IN body(MentionScope_from_event(event),
          extract_mentions_from_event(event, ws[id].username),
          Comment_from_event(event))

\* sync_wrapper(event, gh) of the wrapper numbered id
sync_wrapper(ws, id, event) ==
  LET looped(loop) ==
        Ran(<<"get_event_scope", "parse_mentions_for_username", "Comment.from_event">>
              \o loop.steps, loop.calls, loop.raised)
      body(event_scope, mentions, comment) ==
        IF ws[id].scope # NoneStr /\ event_scope # ws[id].scope
        THEN Ran(<<"get_event_scope">>, <<>>, Null)
        ELSE IF mentions = <<>>
        THEN Ran(<<"get_event_scope", "parse_mentions_for_username">>, <<>>, Null)
        ELSE IF comment.raised # Null
        THEN Ran(<<"get_event_scope", "parse_mentions_for_username", "Comment.from_event">>,
                 <<>>, comment.raised)
        ELSE looped(invoke_mentions(ws, id, event, [comment EXCEPT !.mentions = mentions],
                                    event_scope, mentions, 1))
  IN body(MentionScope_from_event(event),
          extract_mentions_from_event(event, ws[id].username),
          Comment_from_event(event))

\* async_wrapper(event, gh), awaited: the statements of sync_wrapper, with
\* the function awaited where sync_wrapper calls it
async_wrapper(ws, id, event) == sync_wrapper(ws, id, event)

\* the body of the function called name raises when called with context:
\* q raises when the text of the mention it is called for is "deploy"
handler_raises(name, context) ==
  name = "q" /\ context.triggered_by.text = <<"d","e","p","l","o","y">>

\* callable(event, gh, context=context), run to its end
call(ws, callable, event, context) ==
  IF callable.kind = "func"
  THEN Ran(<<>>, <<[func |-> callable.name, context |-> context]>>,
           IF handler_raises(callable.name, context) THEN HandlerError ELSE Null)
  ELSE IF ws[callable.id].is_async
  THEN async_wrapper(ws, callable.id, event)
  ELSE sync_wrapper(ws, callable.id, event)

\* what the decorator of mention() hands back for func
decorator_return_wrapper(func, wrapper) == wrapper

\* "return func" of the decorator
decorator_return(func, wrapper) == func

RECURSIVE add_all(_, _, _, _)
\* "for event_action in events: self.add(wrapper, event_action.event,
\* action=event_action.action, **kwargs)": the routes, or the error of add
add_all(rs, wrapper, events, kwargs) ==
  LET next(added) ==
        IF added.raised # Null THEN added
        ELSE add_all(added.routes, wrapper, Tail(events), kwargs)
  IN IF events = <<>> THEN [raised |-> Null, routes |-> rs]
     ELSE next(add(rs, wrapper, Head(events).event,
                   <<<<"action", Head(events).action>>>>
                     \o [i \in 1..Cardinality(kwargs.keys) |-> <<"kwarg", "">>],
                   "mention"))

\* decorator(func) of mention(**kwargs): the wrapper it makes, the routes
\* it adds, what it returns, and the kwargs of the mention() call as the
\* three pops leave them
decorator(ws, rs, kwargs, func) ==
  LET wrapper == WrapperRef(Len(ws) + 1, func.name)
      made(pattern, username, scope, rest) ==
        LET registered(added) ==
              [raised |-> added.raised,
               wrappers |-> Append(ws, [func |-> func, pattern |-> pattern,
                                        username |-> username, scope |-> scope,
                                        is_async |-> iscoroutinefunction(ws, func)]),
               routes |-> added.routes,
               returned |-> decorator_return(func, wrapper),
               kwargs |-> rest]
        IN registered(add_all(rs, wrapper,
                              IF scope # NoneStr THEN get_events(scope) ELSE all_events,
                              rest))
  IN made(kwargs_pop_pattern(kwargs), kwargs_pop_username(kwargs), kwargs_pop_scope(kwargs),
          [kwargs EXCEPT !.keys = kwargs.keys \ {"pattern", "username", "scope"}])

\* the number of decorators applied so far
Applied ==
  Len(wrappers) + Cardinality({i \in 1..Len(routes) : routes[i].via = "event"})
    + Cardinality({k \in 1..Len(decorators) : decorators[k].raised # Null})

\* the most decorators the model applies
MaxRegs == 2

\* @router.mention(**kwargs) on the function called name: the call of
\* mention and the application of the decorator it returns.  A decorator
\* that raises leaves the name as it was and its wrapper unreferenced.
Mention(name, kwargs) ==
  /\ Applied < MaxRegs
  /\ LET apply(d) ==
           /\ wrappers' = IF d.raised = Null THEN d.wrappers ELSE wrappers
           /\ routes' = d.routes
           /\ bound' = IF d.raised = Null THEN [bound EXCEPT ![name] = d.returned] ELSE bound
           /\ decorators' =
                Append(decorators,
                       [given |-> kwargs, kwargs |-> d.kwargs, raised |-> d.raised,
                        made |-> IF d.raised = Null THEN <<Len(d.wrappers)>> ELSE <<>>])
     IN apply(decorator(wrappers, routes, kwargs, bound[name]))
  /\ dispatched' = NoDispatch
  /\ UNCHANGED <<pvars, mvars, vvars>>

\* decorator(func) once more, on what name is bound to: the k-th decorator
\* object, kept from its mention() call, is applied to another function
ApplyDecorator(k, name) ==
  /\ Applied < MaxRegs
  /\ k \in 1..Len(decorators)
  /\ LET apply(d) ==
           /\ wrappers' = IF d.raised = Null THEN d.wrappers ELSE wrappers
           /\ routes' = d.routes
           /\ bound' = IF d.raised = Null THEN [bound EXCEPT ![name] = d.returned] ELSE bound
           /\ decorators' =
                [decorators EXCEPT ![k] =
                   [given |-> @.given, kwargs |-> d.kwargs, raised |-> d.raised,
                    made |-> IF d.raised = Null THEN Append(@.made, Len(d.wrappers))
                             ELSE @.made]]
     IN apply(decorator(wrappers, routes, decorators[k].kwargs, bound[name]))
  /\ dispatched' = NoDispatch
  /\ UNCHANGED <<pvars, mvars, vvars>>

\* @router.event(event_type, action=action) on the function called name
Event(name, event_type, action) ==
  /\ Applied < MaxRegs
  /\ routes' = add(routes, bound[name], event_type, <<<<"action", action>>>>, "event").routes
  /\ dispatched' = NoDispatch
  /\ UNCHANGED <<wrappers, bound, decorators>>
  /\ UNCHANGED <<pvars, mvars, vvars>>

\* the orders in which a for loop can iterate a frozenset
Orders(S) ==
  {q \in [1..Cardinality(S) -> S] : \A i, j \in 1..Cardinality(S) : q[i] = q[j] => i = j}

\* what the call of one callback did
Run(callback, started, ran) ==
  [callback |-> callback, started |-> started, steps |-> ran.steps, calls |-> ran.calls,
   raised |-> ran.raised]

RECURSIVE dispatch_suppressing(_, _, _, _)
\* a dispatch loop that goes on to the next callback after an exception
dispatch_suppressing(ws, order, event, n) ==
  LET called(callback, ran, rest) ==
        IF iscoroutinefunction(ws, callback)
        THEN [runs |-> <<Run(callback, FALSE, Ran(<<>>, <<>>, Null))>> \o rest.runs,
              raised |-> rest.raised]
        ELSE [runs |-> <<Run(callback, TRUE, ran)>> \o rest.runs,
              raised |-> IF ran.raised # Null THEN ran.raised ELSE rest.raised]
  IN IF n > Len(order) THEN [runs |-> <<>>, raised |-> Null]
     ELSE called(order[n], call(ws, order[n], event, NoContext),
                 dispatch_suppressing(ws, order, event, n + 1))

RECURSIVE dispatch(_, _, _, _)
\* "for callback in found_callbacks: callback(event, *args, **kwargs)" from
\* the n-th callback of the iteration on.  The call of a coroutine function
\* makes a coroutine that nothing awaits: its body does not start.
dispatch(ws, order, event, n) ==
  LET called(callback, ran, rest) ==
        IF iscoroutinefunction(ws, callback)
        THEN [runs |-> <<Run(callback, FALSE, Ran(<<>>, <<>>, Null))>> \o rest.runs,
              raised |-> rest.raised]
        ELSE IF ran.raised # Null
        THEN [runs |-> <<Run(callback, TRUE, ran)>>, raised |-> ran.raised]
        ELSE [runs |-> <<Run(callback, TRUE, ran)>> \o rest.runs, raised |-> rest.raised]
  IN IF n > Len(order) THEN [runs |-> <<>>, raised |-> Null]
     ELSE called(order[n], call(ws, order[n], event, NoContext),
                 dispatch(ws, order, event, n + 1))

RECURSIVE adispatch(_, _, _, _)
\* "for callback in found_callbacks: await callback(event, *args, **kwargs)".
\* A callback that is not a coroutine function runs and returns None, and
\* "await None" raises TypeError.
adispatch(ws, order, event, n) ==
  LET called(callback, ran, rest) ==
        IF ran.raised # Null
        THEN [runs |-> <<Run(callback, TRUE, ran)>>, raised |-> ran.raised]
        ELSE IF ~iscoroutinefunction(ws, callback)
        THEN [runs |-> <<Run(callback, TRUE, ran)>>, raised |-> TypeError]
        ELSE [runs |-> <<Run(callback, TRUE, ran)>> \o rest.runs, raised |-> rest.raised]
  IN IF n > Len(order) THEN [runs |-> <<>>, raised |-> Null]
     ELSE called(order[n], call(ws, order[n], event, NoContext),
                 adispatch(ws, order, event, n + 1))

\* router.dispatch(event, gh)
Dispatch(event, order) ==
  /\ order \in Orders(fetch(routes, event))
  /\ LET record(done) == [event |-> event, mode |-> "dispatch", order |-> order,
                          runs |-> done.runs, raised |-> done.raised]
     IN dispatched' = record(dispatch(wrappers, order, event, 1))
  /\ UNCHANGED <<routes, wrappers, bound, decorators>>
  /\ UNCHANGED <<pvars, mvars, vvars>>

\* await router.adispatch(event, gh)
ADispatch(event, order) ==
  /\ order \in Orders(fetch(routes, event))
  /\ LET record(done) == [event |-> event, mode |-> "adispatch", order |-> order,
                          runs |-> done.runs, raised |-> done.raised]
     IN dispatched' = record(adispatch(wrappers, order, event, 1))
  /\ UNCHANGED <<routes, wrappers, bound, decorators>>
  /\ UNCHANGED <<pvars, mvars, vvars>>

(***************************************************************************)
(* The router as a system: decorators are applied, events are dispatched. *)
(***************************************************************************)
\* the mention decorators of the application: the function and the kwargs
MentionDecorators ==
  { <<"f", Kwargs({"pattern"}, StrPattern(<<"h","e","l","p">>), NonePattern, NoneStr)>>,
    <<"f", Kwargs({"pattern"}, StrPattern(<<"h">>), NonePattern, NoneStr)>>,
    <<"g", Kwargs({"scope"}, NonePattern, NonePattern, MentionScope.ISSUE)>>,
    <<"g", Kwargs({"username", "scope"}, NonePattern, RePattern(<<>>), MentionScope.PR)>>,
    <<"h", Kwargs({"username"}, NonePattern, StrPattern(<<"a","m","y">>), NoneStr)>>,
    <<"p", Kwargs({"pattern", "scope"}, StrPattern(<<"d","e","p","l","o","y">>), NonePattern,
                  MentionScope.COMMIT)>>,
    <<"q", Kwargs({}, NonePattern, NonePattern, NoneStr)>>,
    <<"f", Kwargs({"pattern", "permission"}, StrPattern(<<"h","e","l","p">>), NonePattern,
                  NoneStr)>> }

RouterNext ==
  \/ \E d \in MentionDecorators : Mention(d[1], d[2])
  \/ \E k \in 1..Len(decorators), name \in FuncNames : ApplyDecorator(k, name)
  \/ Event("p", "issue_comment", "created")
  \/ \E event \in RouterEvents : \E order \in Orders(fetch(routes, event)) :
       Dispatch(event, order)
  \/ \E event \in RouterEvents : \E order \in Orders(fetch(routes, event)) :
       ADispatch(event, order)

SpecRouter == Init /\ [][RouterNext]_vars

(***************************************************************************)
(* The functions of mentions.py called on their own: the arguments are     *)
(* chosen at the start, one step makes the call.                           *)
(***************************************************************************)
\* the most pieces in a comment body
MaxTokens == 4

\* the comment bodies extract_mentions_from_event is called on: every
\* sequence of up to MaxTokens pieces (a mention of a, a mention of b
\* between spaces, a word between spaces, a space, a line break), and two
\* bodies of the router's events
Bodies ==
  LET Tokens == <<<<"@","a">>, <<" ","@","b"," ">>, <<" ","x"," ">>, <<" ">>, <<"\n">>>>
      RECURSIVE Flatten(_)
      Flatten(pieces) ==
        IF pieces = <<>> THEN <<>> ELSE Tokens[Head(pieces)] \o Flatten(Tail(pieces))
  IN {Flatten(q) : q \in UNION {[1..k -> 1..Len(Tokens)] : k \in 0..MaxTokens}}
       \cup {BodyMany, BodyHelp}

\* the most characters in a short text
MaxLen == 4

\* the most characters in a short text given to a pattern matcher
MaxWord == 3

\* the texts extract_all_mentions is called on: every text of up to MaxLen
\* characters, and longer ones with code, quotes and long names
Texts ==
  LET TextChars == <<"@", "a", "-", " ", "\n", Backtick, ">">>
      Rep(c, n) == [i \in 1..n |-> c]
  IN {[i \in 1..Len(q) |-> TextChars[q[i]]] :
        q \in UNION {[1..k -> 1..Len(TextChars)] : k \in 0..MaxLen}}
     \cup
     { \* "a\n```\n@c d\n```\n@r a"
       <<"a","\n",Backtick,Backtick,Backtick,"\n","@","c"," ","d","\n",
         Backtick,Backtick,Backtick,"\n","@","r"," ","a">>,
       \* "U `@i c` h @r w"
       <<"U"," ",Backtick,"@","i"," ","c",Backtick," ","h"," ","@","r"," ","w">>,
       \* "> @q i\n@r v"
       <<">"," ","@","q"," ","i","\n","@","r"," ","v">>,
       \* "```\n`@n`\n```\n@r a"
       <<Backtick,Backtick,Backtick,"\n",Backtick,"@","n",Backtick,"\n",
         Backtick,Backtick,Backtick,"\n","@","r"," ","a">>,
       \* "S\n```\n@c\n```\n`@i` t\n> @q l\n@r e"
       <<"S","\n",Backtick,Backtick,Backtick,"\n","@","c","\n",Backtick,Backtick,Backtick,
         "\n",Backtick,"@","i",Backtick," ","t","\n",">"," ","@","q"," ","l","\n",
         "@","r"," ","e">>,
       \* "`a\n> b` @bot"
       <<Backtick,"a","\n",">"," ","b",Backtick," ","@","b","o","t">>,
       \* "`a\n@bot x\nb`"
       <<Backtick,"a","\n","@","b","o","t"," ","x","\n","b",Backtick>>,
       \* "@Valid-User-123 @in--valid x@no"
       <<"@","V","a","l","i","d","-","U","s","e","r","-","1","2","3"," ",
         "@","i","n","-","-","v","a","l","i","d"," ","x","@","n","o">>,
       \* "@" and 41 letters
       <<"@">> \o Rep("a", 41),
       \* "@", 38 letters, "-b"
       <<"@">> \o Rep("a", 38) \o <<"-", "b">> }

\* the calls made: MentionScope.from_event on events of eight types (four
\* that the scopes know, four that they do not), with and without action,
\* issue and pull_request; extract_all_mentions on Texts;
\* extract_mentions_from_event on Bodies, with username_pattern None, a name
\* or a regular expression that matches every name, in an application whose
\* NAME setting is "bot" or "a"; matches_pattern and get_match on every text
\* of up to MaxWord characters and a few longer ones, with pattern None, a
\* literal of up to MaxWord - 1 characters or a longer one, or a regular
\* expression compiled with or without re.IGNORECASE;
\* LineInfo.for_mention_in_comment on every comment of up to MaxLen
\* characters with both line break characters, and two longer ones, at
\* every position from 0 to past the end
MentionInputs ==
  LET Chars == {"a", "A", " ", ".", "*", "\n"}
      LineChars == {"@", "a", " ", "\n", "\r"}
      LineComments ==
        UNION {[1..k -> LineChars] : k \in 0..MaxLen}
          \cup {<<"h","i","\r","\n","@","b","o","t"," ","x">>,
                <<"a","\r","@","b","o","t"," ","x","\n","b">>}
      Words(n) == UNION {[1..k -> Chars] : k \in 0..n}
      deploy == <<"d","e","p","l","o","y">>
      MatcherTexts ==
        Words(MaxWord)
          \cup {deploy, deploy \o <<"e","r">>, deploy \o <<" ","p","r","o","d">>,
                <<"p","l","e","a","s","e"," ">> \o deploy,
                <<"D","E","P","L","O","Y">>, <<" ">> \o deploy \o <<"\n">>}
      MatcherPatterns ==
        {NonePattern}
          \cup {StrPattern(w) : w \in Words(MaxWord - 1)}
          \cup {re_compile(w, fl) : w \in Words(MaxWord - 2), fl \in {{}, {"IGNORECASE"}}}
          \cup {StrPattern(deploy), StrPattern(<<" ","D","e","p","l","o","y"," ">>),
                re_compile(deploy, {}), re_compile(<<"D","E","P","L","O","Y">>, {}),
                re_compile(<<"D","E","P","L","O","Y">>, {"IGNORECASE"})}
  IN
  {[fn |-> "MentionScope.from_event",
    event |-> WebhookEvent(t, a, pr, "absent", <<>>, "absent", <<>>)] :
     t \in {"issue_comment", "pull_request_review_comment", "pull_request_review",
            "commit_comment", "push", "issues", "pull_request", "discussion_comment"},
     a \in {"created", "submitted", "absent"},
     pr \in {"no_issue", "absent", "null", "present"}}
    \cup {[fn |-> "extract_all_mentions", text |-> t] : t \in Texts}
    \cup {[fn |-> "extract_mentions_from_event",
           event |-> WebhookEvent("issue_comment", "created", "absent", "present", b,
                                  "absent", <<>>),
           username_pattern |-> pat,
           NAME |-> name] :
            b \in Bodies,
            pat \in {NonePattern, StrPattern(<<"a">>), RePattern(<<>>)},
            name \in {<<"b","o","t">>, <<"a">>}}
    \cup {[fn |-> "LineInfo.for_mention_in_comment", comment |-> c, mention_position |-> n] :
            c \in LineComments, n \in 0..(MaxLen + 2)}
    \cup {[fn |-> f, text |-> t, pattern |-> pat] :
            f \in {"matches_pattern", "get_match"},
            t \in MatcherTexts, pat \in MatcherPatterns}

MentionsInit ==
  PermInit /\ RouterInit /\ ViewInit /\ input \in MentionInputs /\ output = [done |-> FALSE]

\* MentionScope.from_event(event)
FromEvent ==
  /\ input.fn = "MentionScope.from_event"
  /\ ~output.done
  /\ output' = [done |-> TRUE, value |-> MentionScope_from_event(input.event)]
  /\ UNCHANGED <<pvars, rvars, vvars, input>>

\* extract_mentions_from_event(event, username_pattern)
ExtractMentionsFromEvent ==
  /\ input.fn = "extract_mentions_from_event"
  /\ ~output.done
  /\ output' = [done |-> TRUE,
                value |-> extract_mentions(input.event, input.username_pattern)]
  /\ UNCHANGED <<pvars, rvars, vvars, input>>

\* extract_all_mentions(text)
ExtractAllMentions ==
  /\ input.fn = "extract_all_mentions"
  /\ ~output.done
  /\ output' = [done |-> TRUE, value |-> extract_all_mentions(input.text)]
  /\ UNCHANGED <<pvars, rvars, vvars, input>>

\* matches_pattern(text, pattern)
MatchesPattern ==
  /\ input.fn = "matches_pattern"
  /\ ~output.done
  /\ output' = [done |-> TRUE, value |-> matches_pattern(input.text, input.pattern)]
  /\ UNCHANGED <<pvars, rvars, vvars, input>>

\* get_match(text, pattern)
GetMatch ==
  /\ input.fn = "get_match"
  /\ ~output.done
  /\ output' = [done |-> TRUE, value |-> get_match(input.text, input.pattern)]
  /\ UNCHANGED <<pvars, rvars, vvars, input>>

\* LineInfo.for_mention_in_comment(comment, mention_position)
ForMentionInComment ==
  /\ input.fn = "LineInfo.for_mention_in_comment"
  /\ ~output.done
  /\ output' = [done |-> TRUE,
                value |-> LineInfo_for_mention_in_comment(input.comment,
                                                          input.mention_position)]
  /\ UNCHANGED <<pvars, rvars, vvars, input>>

MentionsNext ==
  \/ FromEvent
  \/ ForMentionInComment
  \/ ExtractAllMentions
  \/ ExtractMentionsFromEvent
  \/ MatchesPattern
  \/ GetMatch

SpecMentions == MentionsInit /\ [][MentionsNext]_vars

(***************************************************************************)
(* The webhook views and the registry of routers.                          *)
(***************************************************************************)
\* the most router objects, views and reads of view.router of the model
MaxObjects == 4
MaxViews == 3
MaxReads == 3

\* GitHubRouter(*args): a new router object, appended to _routers
GitHubRouter_init(objs, routers) ==
  [objects |-> Append(objs, "GitHubRouter"), routers |-> Append(routers, Len(objs) + 1)]

\* BaseWebhookView.router: "return GidgetHubRouter(*Router.routers)", a new
\* router object of the base class
router(objs, routers) ==
  [objects |-> Append(objs, "GidgetHubRouter"), returned |-> Len(objs) + 1]

\* a module of the application makes its router: GitHubRouter()
NewRouter ==
  /\ Len(objects) < MaxObjects
  /\ objects' = GitHubRouter_init(objects, registry).objects
  /\ registry' = GitHubRouter_init(objects, registry).routers
  /\ UNCHANGED <<views, reads>>
  /\ UNCHANGED <<pvars, rvars, mvars>>

\* a webhook view is instantiated
NewView ==
  /\ views < MaxViews
  /\ views' = views + 1
  /\ UNCHANGED <<objects, registry, reads>>
  /\ UNCHANGED <<pvars, rvars, mvars>>

\* view.router is read on the view numbered v
ReadRouter(v) ==
  /\ Len(reads) < MaxReads
  /\ Len(objects) < MaxObjects
  /\ objects' = router(objects, registry).objects
  /\ reads' = Append(reads, [view |-> v, router |-> router(objects, registry).returned])
  /\ UNCHANGED <<registry, views>>
  /\ UNCHANGED <<pvars, rvars, mvars>>

ViewNext ==
  \/ NewRouter
  \/ NewView
  \/ \E v \in 1..views : ReadRouter(v)

SpecViews == Init /\ [][ViewNext]_vars

(***************************************************************************)
(* Claims about the permission resolver.                                   *)
(***************************************************************************)

\* C1 (as stated): a resolution of a key that starts after a resolution of
\* the same key has returned, with no eviction of the key and no cache clear
\* in between, makes no getitem call and returns the value the earlier
\* resolution returned.
C1_Original ==
  last.later => (last.calls = <<>> /\ last.outcome = last.prevFirst)

\* C1 (amended): such a later resolution makes no getitem call and returns
\* the value returned by the resolution of that key that ended most recently
\* before it, whatever the client would answer now.
C1_CachedValueServed ==
  last.later => (last.calls = <<>> /\ last.outcome = last.prevLast)

\* a later resolution served a value that differs from the one first returned
C1_Witness ==
  /\ last.later
  /\ last.calls = <<>>
  /\ last.outcome = Permission.NONE
  /\ last.prevFirst = Permission.READ

\* C2: when a resolution returns v for a key, the cache holds v under that
\* key, NONE included (whether NONE came from a missing permission field, a
\* 404 on a private repo, a failed fallback or another HTTP error); a NONE
\* that is served without a request is the NONE stored before.
C2_ResultIsCached ==
  /\ last.outcome \in PermissionValues => cache_lookup(cache, last.key) = last.outcome
  /\ (last.outcome = Permission.NONE /\ last.calls = <<>>) => last.prevLast = Permission.NONE

\* a NONE that came from an HTTP error other than 404 was just stored
C2_Witness ==
  /\ last.outcome = Permission.NONE
  /\ last.r1.status = 500
  /\ cache_lookup(cache, last.key) = Permission.NONE

\* C3: an HTTP error never leaves the resolver: after a 404 on the
\* collaborator request exactly one fallback request for the repository is
\* made and the result is READ when it succeeds with private false and NONE
\* otherwise; after any other error status the result is NONE and the
\* collaborator request is the only one.
C3_HttpErrorsDegrade ==
  /\ last.r1.status = 404 =>
       /\ last.calls = <<CollabPath(last.key), RepoPath(last.key)>>
       /\ last.outcome = IF last.r2.status = 200 /\ last.r2.private = "false"
                         THEN Permission.READ ELSE Permission.NONE
  /\ last.r1.status \notin {0, 200, 404} =>
       /\ last.calls = <<CollabPath(last.key)>>
       /\ last.outcome = Permission.NONE

\* a 404 followed by a fallback that found a public repository
C3_Witness ==
  /\ last.r1.status = 404
  /\ last.r2.status = 200
  /\ last.r2.private = "false"
  /\ last.outcome = Permission.READ

\* the six permission levels, lower-case
PermissionNames ==
  { <<"n","o","n","e">>, <<"r","e","a","d">>, <<"t","r","i","a","g","e">>,
    <<"w","r","i","t","e">>, <<"m","a","i","n","t","a","i","n">>, <<"a","d","m","i","n">> }

\* C4: when the collaborator response carries a permission string that is
\* none of the six levels (case-insensitively, trimmed), the resolution
\* raises a value error, returns no Permission and leaves the cache as it was.
C4_UnknownPermissionRaises ==
  [][ (/\ last'.r1.status = 200
       /\ last'.r1.permission # Absent
       /\ str_strip(str_lower(last'.r1.permission)) \notin PermissionNames)
      => (last'.outcome = ValueError /\ cache' = cache) ]_vars

\* a resolution that raised the value error while another key was cached
C4_Witness ==
  /\ last.outcome = ValueError
  /\ last.r1.permission = <<"o","w","n","e","r">>
  /\ cache # <<>>

\* C6: the cache never holds more than maxsize entries; storing a new key
\* into a full cache drops exactly the least recently used entry and leaves
\* every other entry as it was.
C6_BoundedLRU ==
  [][ /\ Len(cache') <= maxsize
      /\ \A k \in Keys :
           (Len(cache) = maxsize /\ k \notin CachedKeys(cache) /\ k \in CachedKeys(cache'))
           => /\ CachedKeys(cache') = (CachedKeys(cache) \ {Head(recency)}) \cup {k}
              /\ Head(recency) \in CachedKeys(cache)
              /\ \A j \in CachedKeys(cache) \ {Head(recency)} :
                   cache_lookup(cache', j) = cache_lookup(cache, j) ]_vars

\* a resolution that stored a new key into a full cache and evicted one
C6_Witness ==
  /\ last.evicted # {}
  /\ last.calls # <<>>
  /\ Len(cache) = maxsize

(***************************************************************************)
(* Claims about the event-level check.                                     *)
(***************************************************************************)
\* one of comment.user.login, repository.owner.login, repository.name is
\* missing from the event, with or without the object around it
MissingField(e) == e.login = "absent" \/ e.owner_login = "absent" \/ e.name = "absent"

\* C5: whenever one of the three fields is missing from the event, the
\* event-level check makes no request, does not raise and answers
\* has_permission false with no denial message.
C5_MissingFieldShortCircuits ==
  (lastCheck.required # Null /\ MissingField(lastCheck.event))
    => (lastCheck.result = PermissionCheck(FALSE, NoMessage) /\ lastCheck.calls = <<>>)

(***************************************************************************)
(* Claims about the router.                                                *)
(***************************************************************************)
\* the scope of an event as the specification classifies it
ClassifiedScope(e) ==
  CASE e.event = "issue_comment" ->
         IF e.pull_request = "present" THEN MentionScope.PR ELSE MentionScope.ISSUE
    [] e.event \in {"pull_request_review_comment", "pull_request_review"} -> MentionScope.PR
    [] e.event = "commit_comment" -> MentionScope.COMMIT
    [] OTHER -> NoneStr

\* the runs of the dispatch just made in which a wrapper's body was executed
WrapperRuns ==
  {i \in 1..Len(dispatched.runs) :
     dispatched.runs[i].started /\ dispatched.runs[i].callback.kind = "wrapper"}

\* the wrapper declared a scope and the event just dispatched is of another
ScopeDiffers(id) ==
  /\ wrappers[id].scope # NoneStr
  /\ wrappers[id].scope # ClassifiedScope(dispatched.event)

\* C7: a wrapper registered with scope S that runs on an event classified
\* otherwise returns after the scope comparison alone (no mention is
\* extracted, no Comment is built, nothing is raised), and no function is
\* called on behalf of a wrapper whose scope differs from the event's.
C7_ScopeMismatchReturnsFirst ==
  /\ \A i \in WrapperRuns :
       ScopeDiffers(dispatched.runs[i].callback.id) =>
         /\ dispatched.runs[i].steps = <<"get_event_scope">>
         /\ dispatched.runs[i].calls = <<>>
         /\ dispatched.runs[i].raised = Null
  /\ \A i \in 1..Len(dispatched.runs) :
       \A n \in 1..Len(dispatched.runs[i].calls) :
         dispatched.runs[i].calls[n].context.wrapper # 0 =>
           ~ScopeDiffers(dispatched.runs[i].calls[n].context.wrapper)

\* an ISSUE-scoped wrapper ran on an issue_comment of a pull request
C7_Witness ==
  \E i \in WrapperRuns :
    /\ wrappers[dispatched.runs[i].callback.id].scope = MentionScope.ISSUE
    /\ dispatched.event.event = "issue_comment"
    /\ dispatched.event.pull_request = "present"
    /\ dispatched.event.body = BodyHelp
    /\ dispatched.runs[i].steps = <<"get_event_scope">>

\* the mentions of the event just dispatched that pass the filters of the
\* wrapper numbered id, in the order of extraction
Qualifying(id) ==
  SelectSeq(extract_mentions_from_event(dispatched.event, wrappers[id].username),
            LAMBDA m : wrappers[id].pattern = NonePattern
                         \/ get_match(m.text, wrappers[id].pattern).matched)

\* C8: a wrapper that runs on an event that passes its scope filter calls
\* its function once for each mention that passes the username filter and
\* the content pattern, in ascending order of position, each call with a
\* context whose triggered mention is that mention and whose scope is the
\* event's; it calls nothing when no mention qualifies.  (A run that an
\* exception ends is the subject of C11.)
C8_OncePerQualifyingMention ==
  \A i \in WrapperRuns :
    LET id == dispatched.runs[i].callback.id
        calls == dispatched.runs[i].calls
    IN (~ScopeDiffers(id) /\ dispatched.runs[i].raised = Null) =>
         /\ Len(calls) = Len(Qualifying(id))
         /\ \A n \in 1..Len(calls) :
              /\ calls[n].func = wrappers[id].func.name
              /\ calls[n].context.triggered_by.position = Qualifying(id)[n].position
              /\ calls[n].context.triggered_by.username = Qualifying(id)[n].username
              /\ calls[n].context.triggered_by.text = Qualifying(id)[n].text
              /\ calls[n].context.scope = ClassifiedScope(dispatched.event)
              /\ dispatched.event.body[calls[n].context.triggered_by.position + 1] = "@"
         /\ \A m, n \in 1..Len(calls) :
              m < n => calls[m].context.triggered_by.position
                         < calls[n].context.triggered_by.position

\* a wrapper with a pattern skipped a mention between two it called for
C8_Witness ==
  \E i \in WrapperRuns :
    /\ wrappers[dispatched.runs[i].callback.id].pattern = StrPattern(<<"h">>)
    /\ dispatched.event.body = BodyMany
    /\ Len(dispatched.runs[i].calls) = 2
    /\ dispatched.runs[i].calls[1].context.triggered_by.position = 0
    /\ dispatched.runs[i].calls[2].context.triggered_by.position = 30

\* the callbacks the dispatch just made iterated are all of the kind its
\* entry point runs: dispatch calls functions, adispatch awaits coroutines
EntryPointFits ==
  /\ dispatched.mode # ""
  /\ \A n \in 1..Len(dispatched.order) :
       iscoroutinefunction(wrappers, dispatched.order[n]) = (dispatched.mode = "adispatch")

\* the wrapper numbered id is registered for the event just dispatched
Subscribed(id) ==
  /\ dispatched.event.action # "absent"
  /\ \/ /\ wrappers[id].scope \in {NoneStr, MentionScope.ISSUE, MentionScope.PR}
        /\ dispatched.event.event = "issue_comment"
        /\ dispatched.event.action = "created"
     \/ /\ wrappers[id].scope \in {NoneStr, MentionScope.PR}
        /\ dispatched.event.event = "pull_request_review_comment"
        /\ dispatched.event.action = "created"
     \/ /\ wrappers[id].scope \in {NoneStr, MentionScope.PR}
        /\ dispatched.event.event = "pull_request_review"
        /\ dispatched.event.action = "submitted"
     \/ /\ wrappers[id].scope \in {NoneStr, MentionScope.COMMIT}
        /\ dispatched.event.event = "commit_comment"
        /\ dispatched.event.action = "created"

\* C9: every mention decorator hands back the function it was given, so
\* every wrapper wraps the undecorated function; and when an event is
\* dispatched through the entry point that fits its callbacks, each wrapper
\* registered for the event runs exactly once and calls its function once
\* per mention that qualifies under that wrapper's own filters, whatever
\* other wrappers of the same function do.  (A dispatch that an exception
\* ends is the subject of C11.)
C9_StackedDecoratorsIndependent ==
  /\ \A name \in FuncNames : bound[name] = Func(name)
  /\ \A id \in 1..Len(wrappers) : wrappers[id].func.kind = "func"
  /\ (EntryPointFits /\ dispatched.raised = Null) =>
       \A id \in 1..Len(wrappers) :
         Subscribed(id) =>
           /\ Cardinality({i \in WrapperRuns : dispatched.runs[i].callback.id = id}) = 1
           /\ \A i \in WrapperRuns :
                dispatched.runs[i].callback.id = id =>
                  /\ Len(dispatched.runs[i].calls) =
                       IF ScopeDiffers(id) THEN 0 ELSE Len(Qualifying(id))
                  /\ \A n \in 1..Len(dispatched.runs[i].calls) :
                       /\ dispatched.runs[i].calls[n].func = wrappers[id].func.name
                       /\ dispatched.runs[i].calls[n].context.wrapper = id

\* "@bot help" fired both the "help" and the "h" registration of f
C9_Witness ==
  /\ dispatched.event.body = BodyHelp
  /\ dispatched.mode = "dispatch"
  /\ Len(wrappers) = 2
  /\ wrappers[1].func = Func("f") /\ wrappers[1].pattern = StrPattern(<<"h">>)
  /\ wrappers[2].func = Func("f") /\ wrappers[2].pattern = StrPattern(<<"h","e","l","p">>)
  /\ bound["f"] = Func("f")
  /\ Len(dispatched.runs) = 2
  /\ \A i \in 1..2 : Len(dispatched.runs[i].calls) = 1 /\ dispatched.runs[i].calls[1].func = "f"

\* the place of a callback's first route among the routes
FirstRoute(callback) ==
  CHOOSE i \in 1..Len(routes) :
    /\ routes[i].callback = callback
    /\ \A j \in 1..(i - 1) : routes[j].callback # callback

\* C10: the callbacks a dispatch or adispatch call invokes are invoked in
\* the order in which they were registered on the router.
C10_RegistrationOrder ==
  \A i, j \in 1..Len(dispatched.runs) :
    i < j => FirstRoute(dispatched.runs[i].callback) < FirstRoute(dispatched.runs[j].callback)

\* the calls of the dispatch just made in which the function raised: the
\* run and the place of the call in the run
RaisingCalls ==
  {c \in {<<i, n>> : i \in 1..Len(dispatched.runs), n \in 1..4} :
     /\ c[2] <= Len(dispatched.runs[c[1]].calls)
     /\ handler_raises(dispatched.runs[c[1]].calls[c[2]].func,
                       dispatched.runs[c[1]].calls[c[2]].context)}

\* C11: when a function raises during dispatch or adispatch, the exception
\* is what the dispatch raises, the call that raised is the last call of
\* its wrapper (no later mention of the comment is handled) and its wrapper
\* is the last callback invoked (no later handler is called).
C11_HandlerExceptionPropagates ==
  \A c \in RaisingCalls :
    /\ dispatched.raised = HandlerError
    /\ dispatched.runs[c[1]].raised = HandlerError
    /\ c[1] = Len(dispatched.runs)
    /\ c[2] = Len(dispatched.runs[c[1]].calls)

\* q raised at the second of three mentions, with a callback still to come
C11_Witness ==
  /\ RaisingCalls # {}
  /\ dispatched.mode = "dispatch"
  /\ dispatched.raised = HandlerError
  /\ dispatched.event.body = BodyMany
  /\ Len(dispatched.runs) = 1
  /\ Len(dispatched.order) = 2
  /\ Len(dispatched.runs[1].calls) = 2
  /\ Len(Qualifying(dispatched.runs[1].callback.id)) = 3

(***************************************************************************)
(* Claims about the functions of mentions.py.                              *)
(***************************************************************************)
\* C12: MentionScope.from_event returns for every event, and returns PR for
\* an issue_comment whose issue has a pull_request that is not null, ISSUE
\* for any other issue_comment (no issue, no pull_request key, or a null
\* one), PR for pull_request_review_comment and pull_request_review, COMMIT
\* for commit_comment and None for every other event type.
C12_ScopeClassification ==
  (input.fn = "MentionScope.from_event" /\ output.done) =>
    output.value =
      CASE input.event.event = "issue_comment" /\ input.event.pull_request = "present"
             -> "pr"
        [] input.event.event = "issue_comment" /\ input.event.pull_request # "present"
             -> "issue"
        [] input.event.event \in {"pull_request_review_comment", "pull_request_review"}
             -> "pr"
        [] input.event.event = "commit_comment" -> "commit"
        [] OTHER -> NoneStr

\* an issue_comment with a null pull_request was classified ISSUE
C12_Witness ==
  /\ input.fn = "MentionScope.from_event"
  /\ output.done
  /\ input.event.event = "issue_comment"
  /\ input.event.pull_request = "null"
  /\ output.value = "issue"

\* the raw mentions of the body an extraction was just made on
RawOfInput == extract_all_mentions(input.event.body)

\* the place of the raw mention at position p among the raw mentions
RawIndex(raws, p) == CHOOSE i \in 1..Len(raws) : raws[i].position = p

\* C13: the text of every mention an extraction returns is the body from
\* the end of that mention to the position of the next raw mention
\* (whether or not that one passes the username filter), or to the end of
\* the body for the last raw mention, stripped.
C13_TextEndsAtNextRawMention ==
  (input.fn = "extract_mentions_from_event" /\ output.done) =>
    \A n \in 1..Len(output.value) :
      LET raws == RawOfInput
          i == RawIndex(raws, output.value[n].position)
      IN /\ \E k \in 1..Len(raws) : raws[k].position = output.value[n].position
         /\ output.value[n].text =
              str_strip(Slice(input.event.body, raws[i].end,
                              IF i < Len(raws) THEN raws[i + 1].position
                              ELSE Len(input.event.body)))

\* a kept mention whose text stops at a mention the filter dropped
C13_Witness ==
  /\ input.fn = "extract_mentions_from_event"
  /\ output.done
  /\ input.username_pattern = StrPattern(<<"a">>)
  /\ input.event.body = <<"@","a"," ","x"," "," ","@","b"," "," ","x"," ">>
  /\ Len(output.value) = 1
  /\ output.value[1].text = <<"x">>

\* the positions of the raw mentions of the body whose username passes the
\* username_pattern the extraction was given
PassingPositions ==
  {RawOfInput[k].position : k \in {j \in 1..Len(RawOfInput) :
     matches_pattern(RawOfInput[j].username, input.username_pattern)}}

\* C14: the list an extraction returns holds exactly the raw mentions that
\* pass the username filter it was given, in strictly ascending position,
\* and each mention's previous_mention and next_mention are its neighbours
\* in that list (None at either end), so that no link leaves the list.
C14_LinkedChainOverKept ==
  (input.fn = "extract_mentions_from_event" /\ output.done) =>
    LET mentions == output.value
    IN /\ input.username_pattern # NonePattern =>
            {mentions[n].position : n \in 1..Len(mentions)} = PassingPositions
       /\ \A m, n \in 1..Len(mentions) :
            m < n => mentions[m].position < mentions[n].position
       /\ \A n \in 1..Len(mentions) :
            /\ mentions[n].previous_mention =
                 IF n = 1 THEN 0 - 1 ELSE mentions[n - 1].position
            /\ mentions[n].next_mention =
                 IF n = Len(mentions) THEN 0 - 1 ELSE mentions[n + 1].position

\* two kept mentions with a dropped one between them, linked to each other
C14_Witness ==
  /\ input.fn = "extract_mentions_from_event"
  /\ output.done
  /\ input.username_pattern = StrPattern(<<"a">>)
  /\ input.event.body = <<"@","a"," ","@","b"," ","@","a">>
  /\ Len(output.value) = 2
  /\ output.value[1].next_mention = 6
  /\ output.value[2].previous_mention = 0

\* offset p of text lies in one of the regions, given as <<start, end>> pairs
InRegion(regions, p) ==
  \E k \in 1..Len(regions) : regions[k][1] <= p /\ p < regions[k][2]

\* the inline code spans of text that open and close on one line
SameLineSpans(text) ==
  SelectSeq(InlineCodeMatches(BlankAll(text, CodeBlockMatches(text, 0)), 0),
            LAMBDA r : \A i \in (r[1] + 1)..r[2] : text[i] # "\n")

\* the offset at which the line of text that holds offset p starts
LineStartOf(text, p) ==
  CHOOSE a \in 0..p :
    /\ a = 0 \/ text[a] = "\n"
    /\ \A i \in (a + 1)..p : text[i] # "\n"

\* offset p of text is on a line whose first character that is not
\* whitespace is ">"
OnBlockquoteLine(text, p) ==
  \E q \in LineStartOf(text, p)..(Len(text) - 1) :
    /\ text[q + 1] = ">"
    /\ \A i \in (LineStartOf(text, p) + 1)..q : text[i] \in Whitespace \ {"\n"}

\* C15: extract_all_mentions returns no mention that starts inside a fenced
\* code block, inside an inline code span or on a blockquote line of the
\* text, and every mention it returns satisfies
\* text[position:end] = "@" + username.
C15_NoMentionInBlankedRegions ==
  (input.fn = "extract_all_mentions" /\ output.done) =>
    \A n \in 1..Len(output.value) :
      /\ ~InRegion(CodeBlockMatches(input.text, 0), output.value[n].position)
      /\ ~InRegion(SameLineSpans(input.text), output.value[n].position)
      /\ ~OnBlockquoteLine(input.text, output.value[n].position)
      /\ Slice(input.text, output.value[n].position, output.value[n].end)
           = <<"@">> \o output.value[n].username

\* name obeys the GitHub username rules: 1 to 39 characters, letters,
\* digits and hyphens only, no hyphen first or last, no two hyphens in a row
ValidUsername(name) ==
  /\ Len(name) >= 1
  /\ Len(name) <= 39
  /\ \A i \in 1..Len(name) : IsAlnum(name[i]) \/ name[i] = "-"
  /\ IsAlnum(name[1])
  /\ IsAlnum(name[Len(name)])
  /\ \A i \in 1..(Len(name) - 1) : ~(name[i] = "-" /\ name[i + 1] = "-")

\* C16: every username extract_all_mentions returns obeys the GitHub
\* username rules, a name of more than 39 characters included (it is cut
\* to a valid one), and every mention returned starts at the start of the
\* text or right after a whitespace character.
C16_UsernamesAreValid ==
  (input.fn = "extract_all_mentions" /\ output.done) =>
    \A n \in 1..Len(output.value) :
      /\ ValidUsername(output.value[n].username)
      /\ \/ output.value[n].position = 0
         \/ input.text[output.value[n].position] \in Whitespace

(***************************************************************************)
(* Claims about the webhook views.                                         *)
(***************************************************************************)
\* C17: every read of view.router, on whichever view, returns the same
\* router object, and the routers that exist are the registered ones:
\* making a view or reading view.router makes no further router and the
\* registry holds no more than the application's routers.
C17_OneSharedRouter ==
  /\ \A i, j \in 1..Len(reads) : reads[i].router = reads[j].router
  /\ Len(objects) = Len(registry)
  /\ \A k \in 1..Len(registry) : objects[registry[k]] = "GitHubRouter"

\* the positions of the raw mentions of the body whose username is the
\* NAME setting of the application, whatever the case of the letters
AppNamePositions ==
  {RawOfInput[k].position : k \in {j \in 1..Len(RawOfInput) :
     str_lower(RawOfInput[j].username) = str_lower(input.NAME)}}

\* C18: an extraction that is given no username_pattern returns exactly
\* the mentions whose username is the application's configured name, in
\* any case of the letters.
C18_NoneKeepsAppName ==
  (input.fn = "extract_mentions_from_event" /\ output.done
     /\ input.username_pattern = NonePattern) =>
    {output.value[n].position : n \in 1..Len(output.value)} = AppNamePositions

(***************************************************************************)
(* Claims about review events and unrecognized events.                    *)
(***************************************************************************)
\* the mentions of the review body of the event just dispatched that pass
\* the filters of the wrapper numbered id
QualifyingInReview(id) ==
  SelectSeq(extract_mentions([dispatched.event EXCEPT !.comment = "present",
                                                     !.body = dispatched.event.review_body],
                             wrappers[id].username),
            LAMBDA m : wrappers[id].pattern = NonePattern
                         \/ get_match(m.text, wrappers[id].pattern).matched)

\* C19: when a pull_request_review event with a review is dispatched, a
\* wrapper registered with scope PR or with no scope that runs calls its
\* function once for each qualifying mention of the review body, with a
\* Comment whose body is the review body.
C19_ReviewBodyMentionsHandled ==
  (dispatched.event.event = "pull_request_review" /\ dispatched.event.review = "present") =>
    \A i \in WrapperRuns :
      LET id == dispatched.runs[i].callback.id
      IN (wrappers[id].scope \in {NoneStr, MentionScope.PR}
            /\ dispatched.runs[i].raised = Null) =>
           /\ Len(dispatched.runs[i].calls) = Len(QualifyingInReview(id))
           /\ \A n \in 1..Len(dispatched.runs[i].calls) :
                dispatched.runs[i].calls[n].context.comment.body
                  = dispatched.event.review_body

\* C20: when an event of a type the scopes do not know is dispatched
\* through the entry point that fits the callbacks, no function is called
\* for a wrapper registered with a scope, and every wrapper registered
\* without a scope runs and calls its function once for each qualifying
\* mention of the event, with a context whose scope is None.
C20_UnrecognizedEventReachesUnscoped ==
  (dispatched.mode # "" /\ dispatched.raised = Null
     /\ ClassifiedScope(dispatched.event) = NoneStr) =>
    /\ \A i \in 1..Len(dispatched.runs) :
         \A n \in 1..Len(dispatched.runs[i].calls) :
           dispatched.runs[i].calls[n].context.wrapper # 0 =>
             wrappers[dispatched.runs[i].calls[n].context.wrapper].scope = NoneStr
    /\ \A id \in 1..Len(wrappers) :
         (wrappers[id].scope = NoneStr
            /\ wrappers[id].is_async = (dispatched.mode = "adispatch")) =>
           \E i \in WrapperRuns :
             /\ dispatched.runs[i].callback.id = id
             /\ Len(dispatched.runs[i].calls) = Len(Qualifying(id))
             /\ \A n \in 1..Len(dispatched.runs[i].calls) :
                  dispatched.runs[i].calls[n].context.scope = NoneStr

(***************************************************************************)
(* C21: the mention decorator accepts a permission filter alongside        *)
(* username, pattern and scope: a mention(...) call given permission=P     *)
(* registers the handler (its application ends without an exception and   *)
(* makes a wrapper that is subscribed), so that the handler can be invoked *)
(* for the mentions of authors whose permission is at least P.             *)
(***************************************************************************)
C21_PermissionFilterAccepted ==
  \A k \in 1..Len(decorators) :
    "permission" \in decorators[k].given.keys =>
      /\ decorators[k].raised = Null
      /\ decorators[k].made # <<>>

\* the (event_type, action) pairs the wrapper numbered id is registered under
RegisteredPairs(id) ==
  {<<routes[i].event_type, routes[i].data_value>> :
     i \in {j \in 1..Len(routes) :
              routes[j].callback.kind = "wrapper" /\ routes[j].callback.id = id}}

(***************************************************************************)
(* C30: the filters of a mention registration are fixed by the mention()   *)
(* call: every wrapper that an application of one decorator object made    *)
(* has the username, the pattern and the scope the call was given, and is  *)
(* registered under the same (event_type, action) pairs as the first.      *)
(***************************************************************************)
C30_FiltersNotConsumed ==
  \A k \in 1..Len(decorators) : \A i \in 1..Len(decorators[k].made) :
    /\ wrappers[decorators[k].made[i]].pattern = kwargs_pop_pattern(decorators[k].given)
    /\ wrappers[decorators[k].made[i]].username = kwargs_pop_username(decorators[k].given)
    /\ wrappers[decorators[k].made[i]].scope = kwargs_pop_scope(decorators[k].given)
    /\ RegisteredPairs(decorators[k].made[i]) = RegisteredPairs(decorators[k].made[1])

\* the regular expression pattern, with the flags it was compiled with,
\* matches all of text
WholeMatch(pattern, text) ==
  IF "IGNORECASE" \in pattern.flags
  THEN re_fullmatch(str_lower(pattern.s), str_lower(text))
  ELSE re_fullmatch(pattern.s, text)

\* a and b are the same characters, case apart
SameNoCase(a, b) ==
  Len(a) = Len(b) /\ \A i \in 1..Len(a) : lower_char(a[i]) = lower_char(b[i])

(***************************************************************************)
(* C22: the username matcher accepts a candidate only on a match of the    *)
(* whole string (None: always; a literal: the same characters, case apart, *)
(* once both are trimmed; a compiled expression: it matches all of the     *)
(* candidate, under its own flags), and the content matcher accepts a text *)
(* exactly when the pattern matches a prefix of it (a literal: the text    *)
(* starts with the characters of the literal, case apart, none of them    *)
(* read as an operator; a compiled expression: it matches text[:k] for     *)
(* some k, under its own flags).                                           *)
(***************************************************************************)
C22_MatchersDiffer ==
  /\ (input.fn = "matches_pattern" /\ output.done) =>
       (output.value <=>
          CASE input.pattern.kind = "none" -> TRUE
            [] input.pattern.kind = "str" ->
                 SameNoCase(str_strip(input.text), str_strip(input.pattern.s))
            [] input.pattern.kind = "re" -> WholeMatch(input.pattern, input.text))
  /\ (input.fn = "get_match" /\ output.done /\ input.pattern.kind # "none") =>
       (output.value.matched <=>
          \E k \in 0..Len(input.text) :
            CASE input.pattern.kind = "str" ->
                   SameNoCase(Slice(input.text, 0, k), input.pattern.s)
              [] input.pattern.kind = "re" ->
                   WholeMatch(input.pattern, Slice(input.text, 0, k)))

\* "please deploy" was given to the content matcher with the literal
\* "deploy", and did not match
C22_Witness ==
  /\ input.fn = "get_match"
  /\ output.done
  /\ input.text = <<"p","l","e","a","s","e"," ","d","e","p","l","o","y">>
  /\ input.pattern = StrPattern(<<"d","e","p","l","o","y">>)
  /\ ~output.value.matched

\* the routes of the wrapper numbered id for the pair ea
RoutesFor(id, ea) ==
  {j \in 1..Len(routes) :
     /\ routes[j].callback.kind = "wrapper"
     /\ routes[j].callback.id = id
     /\ routes[j].event_type = ea.event
     /\ routes[j].data_key = "action"
     /\ routes[j].data_value = ea.action}

(***************************************************************************)
(* C23: MentionScope.all_events() has each (event_type, action) pair of    *)
(* the three scopes exactly once, in the order in which the pairs are      *)
(* first seen when the scopes are listed one after the other, so that      *)
(* (issue_comment, created), which two scopes list, is there once; a       *)
(* wrapper without a scope has exactly one route for each of these pairs   *)
(* and no other route, is run once by a dispatch, and calls its function   *)
(* once for each qualifying mention.                                       *)
(***************************************************************************)
C23_AllEventsOncePerPair ==
  LET listed == get_events(MentionScopes[1]) \o get_events(MentionScopes[2])
                  \o get_events(MentionScopes[3])
      first_seen(ea) == CHOOSE i \in 1..Len(listed) :
                          listed[i] = ea /\ \A j \in 1..(i - 1) : listed[j] # ea
  IN /\ {all_events[i] : i \in 1..Len(all_events)} = {listed[i] : i \in 1..Len(listed)}
     /\ \A i, j \in 1..Len(all_events) :
          i < j => /\ all_events[i] # all_events[j]
                   /\ first_seen(all_events[i]) < first_seen(all_events[j])
     /\ \A id \in 1..Len(wrappers) :
          wrappers[id].scope = NoneStr =>
            /\ \A n \in 1..Len(all_events) : Cardinality(RoutesFor(id, all_events[n])) = 1
            /\ Cardinality({j \in 1..Len(routes) :
                              routes[j].callback.kind = "wrapper"
                                /\ routes[j].callback.id = id}) = Len(all_events)
     /\ \A i \in WrapperRuns :
          (/\ wrappers[dispatched.runs[i].callback.id].scope = NoneStr
           /\ dispatched.runs[i].raised = Null) =>
            /\ Len(dispatched.runs[i].calls) = Len(Qualifying(dispatched.runs[i].callback.id))
            /\ \A n \in 1..Len(dispatched.runs) :
                 dispatched.runs[n].callback = dispatched.runs[i].callback => n = i

\* an issue_comment event with one mention was dispatched to a wrapper
\* without a scope, which called its function once
C23_Witness ==
  \E i \in WrapperRuns :
    /\ wrappers[dispatched.runs[i].callback.id].scope = NoneStr
    /\ dispatched.event.event = "issue_comment"
    /\ dispatched.event.body = BodyHelp
    /\ Len(dispatched.runs[i].calls) = 1
    /\ Cardinality(RoutesFor(dispatched.runs[i].callback.id,
                             EventAction("issue_comment", "created"))) = 1

(***************************************************************************)
(* C24: the synchronous and the asynchronous resolver are equivalent.  A   *)
(* step in which aget_user_permission ends, on a key that is in the cache  *)
(* or was still out of it when the last answer came, ends as               *)
(* get_user_permission does on the cache of that moment and the same       *)
(* answers: the same requests in the same order, the same Permission or    *)
(* the same error, the same cache afterwards; and a step in which          *)
(* acheck_mention_permission ends gives the result, the requests and the   *)
(* cache of check_mention_permission on the same event.                    *)
(***************************************************************************)
C24_SyncAsyncEquivalent ==
  [][ LET sync == get_user_permission(cache, last'.key, last'.r1, last'.r2)
          check == check_mention_permission(cache, lastCheck'.event, lastCheck'.required,
                                            last'.r1, last'.r2)
          uninterrupted == last'.calls # <<>> => last'.key \notin CachedKeys(cache)
      IN /\ (last'.mode = "async" /\ uninterrupted) =>
              /\ last'.outcome = sync.outcome
              /\ last'.calls = sync.calls
              /\ cache' = sync.cache
         /\ (lastCheck' # NoCheck /\ last'.mode # "sync" /\ uninterrupted) =>
              /\ lastCheck'.result = check.result
              /\ lastCheck'.calls = check.calls
              /\ cache' = check.cache ]_vars

\* acheck_mention_permission has just ended after both requests: the
\* collaborator request was answered 404, the repository is public, the
\* author has READ, which is stored
C24_Witness ==
  /\ last.mode = "async"
  /\ lastCheck # NoCheck
  /\ Len(last.calls) = 2
  /\ last.outcome = Permission.READ
  /\ lastCheck.result.has_permission
  /\ cache_contains(cache, last.key)

\* offset p of text is on a line that holds no backtick, with a backtick
\* on a line before it and a backtick on a line after it
BetweenBackticks(text, p) ==
  LET line_end == CHOOSE b \in p..Len(text) :
                    /\ b = Len(text) \/ text[b + 1] = "\n"
                    /\ \A i \in (p + 1)..b : text[i] # "\n"
  IN /\ \A i \in (LineStartOf(text, p) + 1)..line_end : text[i] # Backtick
     /\ \E i \in 1..LineStartOf(text, p) : text[i] = Backtick
     /\ \E i \in (line_end + 1)..Len(text) : text[i] = Backtick

(***************************************************************************)
(* C25: inline-code blanking applies only to a span that opens and closes  *)
(* on one line: in a text without a fence, a mention on a line that lies   *)
(* between two backticks placed on other lines (a line that is not a      *)
(* blockquote line) is extracted.                                          *)
(***************************************************************************)
C25_CrossLineSpanNotBlanked ==
  (/\ input.fn = "extract_all_mentions"
   /\ output.done
   /\ \A i \in 0..(Len(input.text) - 1) : ~FenceAt(input.text, i)) =>
    \A p \in 0..(Len(input.text) - 1) :
      (/\ MentionAt(input.text, p)
       /\ BetweenBackticks(input.text, p)
       /\ ~OnBlockquoteLine(input.text, p)) =>
        \E n \in 1..Len(output.value) : output.value[n].position = p

\* needle occurs in hay
Contains(hay, needle) ==
  \E k \in 0..(Len(hay) - Len(needle)) : Slice(hay, k, k + Len(needle)) = needle

(***************************************************************************)
(* C26: LineInfo.for_mention_in_comment raises for no comment and no       *)
(* position from 0 on, past the end included; its line number is 1 plus    *)
(* the number of "\n" before the position; and for a position at which     *)
(* extract_all_mentions finds a mention, its text holds "@" + username,    *)
(* whether lines end in "\n", "\r\n" or "\r".                              *)
(***************************************************************************)
C26_LineInfoOfMention ==
  (input.fn = "LineInfo.for_mention_in_comment" /\ output.done) =>
    /\ output.value.raised = Null
    /\ output.value.lineno
         = 1 + Cardinality({i \in 1..Len(input.comment) :
                              i <= input.mention_position /\ input.comment[i] = "\n"})
    /\ \A n \in 1..Len(extract_all_mentions(input.comment)) :
         extract_all_mentions(input.comment)[n].position = input.mention_position =>
           Contains(output.value.text,
                    <<"@">> \o extract_all_mentions(input.comment)[n].username)

\* the username, the text and the position of each mention of a list
Identities(mentions) ==
  [k \in 1..Len(mentions) |->
     <<mentions[k].username, mentions[k].text, mentions[k].position>>]

(***************************************************************************)
(* C27: in every call of a function by a mention wrapper, the triggering   *)
(* mention of the context is an element of context.comment.mentions;       *)
(* comment.mentions lists every mention of the event that passed the       *)
(* username filter of the wrapper, those the content pattern rejects       *)
(* included; and the calls of one run of a wrapper are given the one       *)
(* Comment that the run built (Comment.from_event is called once, and the  *)
(* comments of the calls have the same body and the same mentions).        *)
(***************************************************************************)
C27_TriggeredInSharedComment ==
  \A i \in WrapperRuns :
    LET id == dispatched.runs[i].callback.id
        calls == dispatched.runs[i].calls
    IN /\ calls # <<>> =>
            Cardinality({k \in 1..Len(dispatched.runs[i].steps) :
                           dispatched.runs[i].steps[k] = "Comment.from_event"}) = 1
       /\ \A n \in 1..Len(calls) :
            /\ \E k \in 1..Len(calls[n].context.comment.mentions) :
                 calls[n].context.comment.mentions[k] = calls[n].context.triggered_by
            /\ Identities(calls[n].context.comment.mentions)
                 = Identities(extract_mentions_from_event(dispatched.event,
                                                          wrappers[id].username))
            /\ calls[n].context.comment.body = calls[1].context.comment.body
            /\ Identities(calls[n].context.comment.mentions)
                 = Identities(calls[1].context.comment.mentions)

\* a wrapper with a pattern called its function for the second of three
\* mentions of the bot, and the comment of the context lists all three
C27_Witness ==
  \E i \in WrapperRuns :
    /\ wrappers[dispatched.runs[i].callback.id].pattern = StrPattern(<<"h">>)
    /\ dispatched.event.body = BodyMany
    /\ Len(dispatched.runs[i].calls) = 2
    /\ Len(dispatched.runs[i].calls[2].context.comment.mentions) = 3
    /\ dispatched.runs[i].calls[2].context.triggered_by
         = dispatched.runs[i].calls[2].context.comment.mentions[3]

(***************************************************************************)
(* C28: under every interleaving of asynchronous resolutions suspended at  *)
(* their getitem awaits: a resolution that was suspended ends having made  *)
(* its own collaborator-permission request, whatever other resolutions of  *)
(* the key did in the meantime; a step that stores a value under a key, or *)
(* changes the one stored, ends a resolution of that key, and the value    *)
(* is the one this resolution computed from the answers it got; and when   *)
(* no resolution is pending, the entry of a cached key is the value that   *)
(* the resolution of the key that ended last returned.                     *)
(***************************************************************************)
C28_InterleavedResolutionsConsistent ==
  [][ /\ \A t \in Tasks :
           (tasks[t].pc # "idle" /\ tasks'[t].pc = "idle") =>
             /\ last'.key = tasks[t].key
             /\ last'.calls # <<>>
             /\ last'.calls[1] = CollabPath(tasks[t].key)
      /\ \A k \in Keys :
           (/\ cache_contains(cache', k)
            /\ cache_lookup(cache', k) # cache_lookup(cache, k)) =>
             /\ last'.key = k
             /\ last'.calls # <<>>
             /\ cache_lookup(cache', k) = last'.outcome
             /\ last'.outcome = get_user_permission(<<>>, k, last'.r1, last'.r2).outcome
      /\ (\A t \in Tasks : tasks'[t].pc = "idle") =>
           \A k \in Keys :
             cache_contains(cache', k) => cache_lookup(cache', k) = lastRes'[k] ]_vars

\* two resolutions of one key overlapped: the one that has just ended
\* started before any had returned, made its own requests, and replaced the
\* value another resolution had stored in the meantime
C28_Witness ==
  /\ \A t \in Tasks : tasks[t].pc = "idle"
  /\ last.mode = "async"
  /\ ~last.later
  /\ Len(last.calls) = 2
  /\ last.prevLast = Permission.NONE
  /\ last.outcome = Permission.READ
  /\ cache_lookup(cache, last.key) = Permission.READ

(***************************************************************************)
(* C29: a mention handler whose filters are satisfied has its body run to  *)
(* its end by either entry point, however it was defined: a dispatch or    *)
(* an adispatch that no handler body and no Comment.from_event ends with   *)
(* an exception ends without one, and every fetched wrapper whose scope    *)
(* fits the event and for which some mention qualifies was run and called  *)
(* its function for each qualifying mention.                               *)
(***************************************************************************)
C29_EitherEntryPointRuns ==
  (dispatched.mode # "" /\ dispatched.raised \notin {HandlerError, ValueError}) =>
    /\ dispatched.raised = Null
    /\ \A n \in 1..Len(dispatched.order) :
         (/\ dispatched.order[n].kind = "wrapper"
          /\ ~ScopeDiffers(dispatched.order[n].id)
          /\ Qualifying(dispatched.order[n].id) # <<>>) =>
           \E i \in 1..Len(dispatched.runs) :
             /\ dispatched.runs[i].callback = dispatched.order[n]
             /\ dispatched.runs[i].started
             /\ Len(dispatched.runs[i].calls) = Len(Qualifying(dispatched.order[n].id))

====
